---- MODULE Spec2Model ----
(***************************************************************************)
(* Source synchronization engine of vivid-vscode: ChainCodeSync            *)
(* (src/src/chainCodeSync.ts), the structural parser it uses               *)
(* (src/src/cppParser.ts) and the extension glue that drives it            *)
(* (src/unnamed/part_001, the extension's activate/connectToRuntime).      *)
(*                                                                         *)
(* Text is kept as text: the document is a sequence of lines, each a       *)
(* string, and locations are 0-based (line, column) pairs as in the code.  *)
(* Numbers are fixed-point: a value v stands for v / 100.                  *)
(***************************************************************************)
EXTENDS Integers, Sequences, FiniteSets, TLC

(***************************************************************************)
(* Bounds of the model.                                                    *)
(***************************************************************************)
MaxProcs == 2
MaxSchedules == 2
MaxExternal == 1
MaxRequests == 2
MaxSliderEdits == 2
MaxUserCalls == 2
MaxDetached == 1
MaxLog == 2
MaxSends == 1

(***************************************************************************)
(* Characters and small helpers.                                           *)
(***************************************************************************)
Letters ==
  {"a","b","c","d","e","f","g","h","i","j","k","l","m","n","o","p","q","r",
   "s","t","u","v","w","x","y","z","A","B","C","D","E","F","G","H","I","J",
   "K","L","M","N","O","P","Q","R","S","T","U","V","W","X","Y","Z","_"}

Digits == {"0","1","2","3","4","5","6","7","8","9"}

DigitStr == <<"0","1","2","3","4","5","6","7","8","9">>

IdentChars == Letters \cup Digits

NumberChars == Letters \cup Digits \cup {"."}

EmptyMap == [x \in {} |-> 0]

Ch(s, i) == SubSeq(s, i, i)

Min(a, b) == IF a < b THEN a ELSE b

Upd(f, k, v) == [x \in (DOMAIN f) \cup {k} |-> IF x = k THEN v ELSE f[x]]

RECURSIVE ScanIn(_, _, _)
ScanIn(s, i, S) ==
  IF i <= Len(s) /\ Ch(s, i) \in S THEN ScanIn(s, i + 1, S) ELSE i

RECURSIVE ScanTo(_, _, _)
ScanTo(s, i, c) ==
  IF i <= Len(s) /\ Ch(s, i) # c THEN ScanTo(s, i + 1, c) ELSE i

(***************************************************************************)
(* The parse tree's leaves.  A token carries its text and its 0-based      *)
(* start and (exclusive) end column, as a tree-sitter node carries         *)
(* startPosition.column and endPosition.column.                            *)
(***************************************************************************)
Tok(kind, s, i, j) ==
  [kind |-> kind, text |-> SubSeq(s, i, j - 1), start |-> i - 1, end |-> j - 1]

RECURSIVE Tokenize(_, _)
Tokenize(s, i) ==
  IF i > Len(s) THEN <<>>
  ELSE LET c == Ch(s, i) IN
    IF c = " " THEN Tokenize(s, i + 1)
    ELSE IF c = "/" /\ i < Len(s) /\ Ch(s, i + 1) = "/" THEN <<>>
    ELSE IF c \in Letters THEN
      LET j == ScanIn(s, i, IdentChars)
      IN  <<Tok("id", s, i, j)>> \o Tokenize(s, j)
    ELSE IF c \in Digits THEN
      LET j == ScanIn(s, i, NumberChars)
      IN  <<Tok("num", s, i, j)>> \o Tokenize(s, j)
    ELSE IF c = "\"" THEN
      LET q == ScanTo(s, i + 1, "\"")
          j == IF q <= Len(s) THEN q + 1 ELSE q
      IN  <<Tok("str", s, i, j)>> \o Tokenize(s, j)
    ELSE <<Tok("punct", s, i, i + 1)>> \o Tokenize(s, i + 1)

IsP(t, c) == t.kind = "punct" /\ t.text = c

(***************************************************************************)
(* cppParser.isConstantLiteral: a number, true, false or a string literal  *)
(* node is a constant; every other node kind is not.  The right-hand side  *)
(* is one node; a unary minus, a binary expression or an identifier is a   *)
(* node of another kind.                                                   *)
(***************************************************************************)
isConstantLiteral(rhs) ==
  /\ Len(rhs) = 1
  /\ \/ rhs[1].kind = "num"
     \/ rhs[1].kind = "id" /\ rhs[1].text \in {"true", "false"}
     \/ rhs[1].kind = "str"

(***************************************************************************)
(* cppParser.findOperatorDeclarations, one statement per line:             *)
(*   <type> & VAR = OBJ . add < TYPE > ( "NAME" ) ;                        *)
(* A declaration without a reference declarator has no variable name and   *)
(* is not reported; neither is one with an empty name.                     *)
(***************************************************************************)
IsDeclaration(T) ==
  /\ Len(T) = 14
  /\ T[1].kind = "id" /\ IsP(T[2], "&") /\ T[3].kind = "id" /\ IsP(T[4], "=")
  /\ T[5].kind = "id" /\ IsP(T[6], ".")
  /\ T[7].kind = "id" /\ T[7].text = "add"
  /\ IsP(T[8], "<") /\ T[9].kind = "id" /\ IsP(T[10], ">")
  /\ IsP(T[11], "(") /\ T[12].kind = "str" /\ IsP(T[13], ")") /\ IsP(T[14], ";")
  /\ Len(T[12].text) > 2

StringContent(s) ==
  IF Len(s) >= 2 /\ Ch(s, Len(s)) = "\"" THEN SubSeq(s, 2, Len(s) - 1)
  ELSE SubSeq(s, 2, Len(s))

RECURSIVE findOperatorDeclarations(_, _)
findOperatorDeclarations(lines, r) ==
  IF r > Len(lines) THEN <<>>
  ELSE LET T == Tokenize(lines[r], 1) IN
    (IF IsDeclaration(T)
     THEN << [name |-> StringContent(T[12].text), variableName |-> T[3].text,
              typeName |-> T[9].text, line |-> r - 1] >>
     ELSE <<>>) \o findOperatorDeclarations(lines, r + 1)

(***************************************************************************)
(* cppParser.findMemberAssignments, one statement per line:                *)
(*   VAR . PARAM = <expression> ;                                          *)
(* kept only when VAR is a known operator variable.  The value span is the *)
(* span of the right-hand node.                                            *)
(***************************************************************************)
IsAssignment(T) ==
  /\ Len(T) >= 6
  /\ T[1].kind = "id" /\ IsP(T[2], ".") /\ T[3].kind = "id" /\ IsP(T[4], "=")
  /\ IsP(T[Len(T)], ";")
  /\ \A i \in 5..(Len(T) - 1) : ~IsP(T[i], ";") /\ ~IsP(T[i], "=")

RECURSIVE findMemberAssignments(_, _, _)
findMemberAssignments(lines, knownOperators, r) ==
  IF r > Len(lines) THEN <<>>
  ELSE LET T == Tokenize(lines[r], 1) IN
    (IF IsAssignment(T) /\ T[1].text \in knownOperators
     THEN LET rhs == SubSeq(T, 5, Len(T) - 1) IN
          << [operatorVar |-> T[1].text, paramName |-> T[3].text,
              value |-> SubSeq(lines[r], rhs[1].start + 1, rhs[Len(rhs)].end),
              line |-> r - 1,
              startColumn |-> rhs[1].start, endColumn |-> rhs[Len(rhs)].end,
              isConstant |-> isConstantLiteral(rhs)] >>
     ELSE <<>>) \o findMemberAssignments(lines, knownOperators, r + 1)

(***************************************************************************)
(* cppParser.parseChainFile: operators first, then the assignments of the  *)
(* operator variables found.                                               *)
(***************************************************************************)
cppParseChainFile(lines) ==
  LET operators == findOperatorDeclarations(lines, 1)
      operatorVars == {operators[i].variableName : i \in DOMAIN operators}
  IN  [operators |-> operators,
       params |-> findMemberAssignments(lines, operatorVars, 1)]

(***************************************************************************)
(* ChainCodeSync.formatFloat.  toFixed(2) of v / 100, then                 *)
(* str.replace(/\.?0+$/, ''), then the untrimmed text when the trimmed one *)
(* holds no '.', then the suffix 'f'.                                      *)
(***************************************************************************)
RECURSIVE NatStr(_)
NatStr(n) == IF n < 10 THEN DigitStr[n + 1] ELSE NatStr(n \div 10) \o DigitStr[(n % 10) + 1]

Abs(v) == IF v < 0 THEN -v ELSE v

\* (a variant that keeps one decimal only)
toFixed1(v) ==
  (IF v < 0 THEN "-" ELSE "") \o NatStr(Abs(v) \div 100) \o "."
    \o DigitStr[((Abs(v) \div 10) % 10) + 1]

toFixed2(v) ==
  (IF v < 0 THEN "-" ELSE "") \o NatStr(Abs(v) \div 100) \o "."
    \o DigitStr[((Abs(v) \div 10) % 10) + 1] \o DigitStr[(Abs(v) % 10) + 1]

RECURSIVE TrailingZeros(_, _)
TrailingZeros(s, i) ==
  IF i >= 1 /\ Ch(s, i) = "0" THEN 1 + TrailingZeros(s, i - 1) ELSE 0

\* str.replace(/\.?0+$/, ''): the leftmost match that reaches the end
TrimZeros(str) ==
  LET z == TrailingZeros(str, Len(str))
      first == Len(str) - z + 1
  IN  IF z = 0 THEN str
      ELSE IF first > 1 /\ Ch(str, first - 1) = "." THEN SubSeq(str, 1, first - 2)
      ELSE SubSeq(str, 1, first - 1)

HasDot(s) == \E i \in 1..Len(s) : Ch(s, i) = "."

\* (a variant that keeps the two decimals)
formatFloatUntrimmed(v) == toFixed2(v) \o "f"

formatFloat(v) ==
  LET str == toFixed2(v)
      trimmed == TrimZeros(str)
  IN  (IF HasDot(trimmed) THEN trimmed ELSE str) \o "f"

\* Math.round(x).toString(): round half up
roundToString(v) ==
  LET n == (v + 50) \div 100
  IN  IF n < 0 THEN "-" \o NatStr(-n) ELSE NatStr(n)

(***************************************************************************)
(* The switch on paramType of applyParamUpdate and insertNewParam.         *)
(***************************************************************************)
\* (a variant that joins the components with a comma only)
commaJoined(value, paramType) ==
  CASE paramType = "Float" -> formatFloat(value[1])
    [] paramType = "Int" -> roundToString(value[1])
    [] paramType = "Bool" -> IF value[1] # 0 THEN "true" ELSE "false"
    [] paramType = "Vec2" -> formatFloat(value[1]) \o "," \o formatFloat(value[2])
    [] paramType = "Vec3" ->
         formatFloat(value[1]) \o "," \o formatFloat(value[2]) \o ","
           \o formatFloat(value[3])
    [] paramType \in {"Vec4", "Color"} ->
         formatFloat(value[1]) \o "," \o formatFloat(value[2]) \o ","
           \o formatFloat(value[3]) \o "," \o formatFloat(value[4])
    [] OTHER -> formatFloat(value[1])

FormatValue(value, paramType) ==
  CASE paramType = "Float" -> formatFloat(value[1])
    [] paramType = "Int" -> roundToString(value[1])
    [] paramType = "Bool" -> IF value[1] # 0 THEN "true" ELSE "false"
    [] paramType = "Vec2" -> formatFloat(value[1]) \o ", " \o formatFloat(value[2])
    [] paramType = "Vec3" ->
         formatFloat(value[1]) \o ", " \o formatFloat(value[2]) \o ", "
           \o formatFloat(value[3])
    [] paramType \in {"Vec4", "Color"} ->
         formatFloat(value[1]) \o ", " \o formatFloat(value[2]) \o ", "
           \o formatFloat(value[3]) \o ", " \o formatFloat(value[4])
    [] OTHER -> formatFloat(value[1])

(***************************************************************************)
(* ChainCodeSync.parseChainFile, the synchronous part: both maps are       *)
(* rebuilt from the text.  operatorInfoMap maps a chain name to its        *)
(* declaration (a later declaration of the name replaces an earlier one);  *)
(* paramMap maps (chain name, param name) to the location of the value (a  *)
(* later assignment replaces an earlier one).                              *)
(***************************************************************************)
RECURSIVE OperatorInfoMapOf(_, _)
OperatorInfoMapOf(operators, n) ==
  IF n = 0 THEN EmptyMap
  ELSE Upd(OperatorInfoMapOf(operators, n - 1), operators[n].name,
           [variableName |-> operators[n].variableName,
            chainName |-> operators[n].name,
            typeName |-> operators[n].typeName,
            line |-> operators[n].line])

\* the keys of operatorInfoMap in insertion order
RECURSIVE ChainNames(_, _)
ChainNames(operators, n) ==
  IF n = 0 THEN <<>>
  ELSE LET before == ChainNames(operators, n - 1) IN
       IF \E i \in DOMAIN before : before[i] = operators[n].name THEN before
       ELSE Append(before, operators[n].name)

RECURSIVE VarToChainName(_, _, _)
VarToChainName(infoMap, names, n) ==
  IF n = 0 THEN EmptyMap
  ELSE Upd(VarToChainName(infoMap, names, n - 1),
           infoMap[names[n]].variableName, names[n])

\* (a variant that keeps the location already stored for the key)
keepFirst(pMap, key, location) ==
  IF key \in DOMAIN pMap THEN pMap ELSE Upd(pMap, key, location)

\* this.paramMap[chainName][param.paramName] = {...}
setLocation(pMap, key, location) == Upd(pMap, key, location)

RECURSIVE ParamMapOf(_, _, _)
ParamMapOf(params, varToChain, n) ==
  IF n = 0 THEN EmptyMap
  ELSE LET before == ParamMapOf(params, varToChain, n - 1)
           p == params[n]
       IN  IF p.operatorVar \in DOMAIN varToChain
           THEN setLocation(before, <<varToChain[p.operatorVar], p.paramName>>,
                            [line |-> p.line, startColumn |-> p.startColumn,
                             endColumn |-> p.endColumn, currentValue |-> p.value,
                             isConstant |-> p.isConstant])
           ELSE before

BuildMaps(parsed) ==
  LET infoMap == OperatorInfoMapOf(parsed.operators, Len(parsed.operators))
      names == ChainNames(parsed.operators, Len(parsed.operators))
      varToChain == VarToChainName(infoMap, names, Len(names))
  IN  [operatorInfoMap |-> infoMap,
       paramMap |-> ParamMapOf(parsed.params, varToChain, Len(parsed.params))]

(***************************************************************************)
(* Text edits, as the editor applies them.  A replace edit covers          *)
(* [startColumn, endColumn) of one line; an insert edit puts one new line  *)
(* at (line, 0).  Positions beyond the text are clamped to it.             *)
(***************************************************************************)
NoEdit == [kind |-> "none", line |-> 0, startColumn |-> 0, endColumn |-> 0, text |-> ""]

ReplaceIn(L, sc, ec, text) ==
  LET s == Min(sc, Len(L))
      e == IF Min(ec, Len(L)) < s THEN s ELSE Min(ec, Len(L))
  IN  SubSeq(L, 1, s) \o text \o SubSeq(L, e + 1, Len(L))

ApplyEdit(d, e) ==
  IF e.kind = "replace" THEN
    IF e.line < Len(d)
    THEN [d EXCEPT ![e.line + 1] = ReplaceIn(@, e.startColumn, e.endColumn, e.text)]
    ELSE Append(d, e.text)
  ELSE IF e.kind = "insert" THEN
    LET at == Min(e.line, Len(d))
    IN  SubSeq(d, 1, at) \o <<e.text>> \o SubSeq(d, at + 1, Len(d))
  ELSE d

(***************************************************************************)
(* applyParamUpdate after its re-parse: the replace edit over the cached   *)
(* location of the parameter.                                              *)
(***************************************************************************)
ReplaceEditFor(location, value, paramType) ==
  [kind |-> "replace", line |-> location.line,
   startColumn |-> location.startColumn, endColumn |-> location.endColumn,
   text |-> FormatValue(value, paramType)]

(***************************************************************************)
(* insertNewParam: the new line goes after the later of the declaration    *)
(* line and the last cached parameter line of the operator, with the       *)
(* leading whitespace of the declaration line ('    ' when it has none).   *)
(***************************************************************************)
\* (a variant that always inserts right after the declaration)
afterDeclaration(infoMap, pMap, operator) == infoMap[operator].line

InsertAfterLine(infoMap, pMap, operator) ==
  LET lines == {infoMap[operator].line}
                 \cup {pMap[k].line : k \in {q \in DOMAIN pMap : q[1] = operator}}
  IN  CHOOSE m \in lines : \A x \in lines : x <= m

LeadingWhitespace(L) == SubSeq(L, 1, ScanIn(L, 1, {" "}) - 1)

Indent(L) == IF LeadingWhitespace(L) = "" THEN "    " ELSE LeadingWhitespace(L)

InsertEditFor(d, infoMap, pMap, key, value, paramType) ==
  LET opInfo == infoMap[key[1]]
  IN  [kind |-> "insert",
       line |-> InsertAfterLine(infoMap, pMap, key[1]) + 1,
       startColumn |-> 0, endColumn |-> 0,
       text |-> Indent(d[opInfo.line + 1]) \o opInfo.variableName \o "." \o key[2]
                  \o " = " \o FormatValue(value, paramType) \o ";"]

(***************************************************************************)
(* State.                                                                  *)
(*   doc                 the text of chain.cpp as the extension host sees  *)
(*                       it (vscode.TextDocument.getText)                   *)
(*   tree                what cppParser.parseChainFile yields for doc; it   *)
(*                       is kept with doc and changes only with it          *)
(*   chainDocument       whether ChainCodeSync.chainDocument is set         *)
(*   parserInitialized   ChainCodeSync.parserInitialized                    *)
(*   paramMap, operatorInfoMap   the location caches                        *)
(*   cacheOwner          the run whose parse built the objects now in       *)
(*                       paramMap: a schedule id, 0 for a snapshot parse,   *)
(*                       -1 when the caches were emptied                    *)
(*   pendingUpdates      key -> [value, timeout]                            *)
(*   timers              the live debounce timers, each with the arguments  *)
(*                       its callback closes over                           *)
(*   isUpdating          the busy flag                                      *)
(*   pendingChangeLines  lines marked as edited and not yet saved           *)
(*   procs               the suspended async calls (applyParamUpdate, told  *)
(*                       apart by their schedule id, and the parseChainFile *)
(*                       of a snapshot), each at one of its awaits          *)
(*   currentParams       the extension's list of runtime parameters         *)
(* History, for stating the properties:                                    *)
(*   nextSid             the id the next scheduleParamUpdate call gets      *)
(*   superseded          [old, new, value]: call old was replaced by call   *)
(*                       new (carrying value) while old's timer was live    *)
(*   issued              the calls whose update issued a text edit          *)
(*   skipped             the calls whose timer fired while isUpdating, each *)
(*                       with whether an edit for another key was in flight *)
(*   lastScheduled       key -> the last call for it since the last         *)
(*                       external change or disconnect                      *)
(*   extCount            the number of external changes so far              *)
(*   cancelled           the calls whose timer was cleared by                *)
(*                       onDocumentChanged or clear                          *)
(*   raised              the async calls that ended with an exception (a     *)
(*                       schedule id, 0 for a snapshot parse)                *)
(* The workspace:                                                          *)
(*   findable            whether findFiles('**/chain.cpp') finds a file     *)
(*   isClosed            whether the document of chain.cpp has been closed  *)
(*                       (TextDocument.isClosed); doc is then the text the  *)
(*                       closed document still returns                      *)
(*   disk                the text of chain.cpp on disk                      *)
(***************************************************************************)
VARIABLES doc, tree, chainDocument, parserInitialized, paramMap, operatorInfoMap,
          cacheOwner, pendingUpdates, timers, isUpdating, pendingChangeLines,
          procs, currentParams,
          nextSid, superseded, issued, skipped, lastScheduled, extCount,
          cancelled, raised, findable, isClosed, disk

engineVars == <<doc, tree, chainDocument, parserInitialized, paramMap, operatorInfoMap,
                cacheOwner, pendingUpdates, timers, isUpdating, pendingChangeLines,
                procs, currentParams,
                nextSid, superseded, issued, skipped, lastScheduled, extCount,
                cancelled, raised, findable, isClosed, disk>>

hist == <<nextSid, superseded, issued, skipped, lastScheduled, extCount, raised>>

\* the workspace as the engine finds it
env == <<findable, isClosed, disk>>

(***************************************************************************)
(* The pre-edit gate (the extension's hook server).                        *)
(*   dirty      whether the buffer of chain.cpp has unsaved modifications  *)
(*              (TextDocument.isDirty)                                     *)
(*   requests   the POST /prepare-for-edit requests being handled, each    *)
(*              with its position in the handler, the choice the prompt    *)
(*              returned and the response written                          *)
(*   nextReq    the id the next request gets                               *)
(*   sliderEdits  the number of engine edits applied to the buffer so far  *)
(***************************************************************************)
VARIABLES dirty, requests, nextReq, sliderEdits

gateVars == <<dirty, requests, nextReq, sliderEdits>>

(***************************************************************************)
(* RuntimeClient.                                                          *)
(*   ws                 the state of the socket this.ws refers to ("null"  *)
(*                      when this.ws is null)                              *)
(*   detached           the sockets the client no longer refers to whose   *)
(*                      handlers are still registered, by state            *)
(*   reconnectTimer     0 when this.reconnectTimer is null, else the delay *)
(*                      of the pending timer in ms                         *)
(*   reconnectAttempts  this.reconnectAttempts                             *)
(* History:                                                                *)
(*   consecutive        reconnect attempts made since the last open        *)
(*   lastDelay          the delay of the previous reconnect timer since    *)
(*                      the last open (0 when there is none)               *)
(*   scheduledTick      flips each time a reconnect timer is set            *)
(*   stopped            disconnect() was called and connect() has not been *)
(*                      called by the extension since                      *)
(*   userCalls          the number of connect() calls by the extension     *)
(*   liveTimers         the number of setTimeout handles of the client     *)
(*                      that have neither fired nor been cleared           *)
(*   log                the calls made to the subscribers of inbound       *)
(*                      messages and of errors, in order                   *)
(*   dialogs            the warning and error messages shown by the        *)
(*                      extension's error subscriber                       *)
(*   sendCalls          the number of calls of send()                      *)
(*   transmitted        the number of ws.send() calls                      *)
(***************************************************************************)
VARIABLES ws, detached, reconnectTimer, reconnectAttempts,
          consecutive, lastDelay, scheduledTick, stopped, userCalls,
          liveTimers, log, dialogs, sendCalls, transmitted

wire == <<log, dialogs, sendCalls, transmitted>>

clientVars == <<ws, detached, reconnectTimer, reconnectAttempts,
                consecutive, lastDelay, scheduledTick, stopped, userCalls,
                liveTimers, wire>>

(***************************************************************************)
(* One update taken alone, step by step (parse, edit, apply, re-parse).    *)
(*   run   the inputs of the update and what each step produced            *)
(***************************************************************************)
VARIABLES run

vars == <<engineVars, gateVars, clientVars, run>>

\* what an action of the engine leaves alone
others == <<gateVars, clientVars, run>>

NoDetached == [connecting |-> 0, open |-> 0, closing |-> 0]

NoRun == [pc |-> "none"]

GateParked == dirty = FALSE /\ requests = {} /\ nextReq = 0 /\ sliderEdits = 0

ClientParked ==
  /\ ws = "null" /\ detached = NoDetached
  /\ reconnectTimer = 0 /\ reconnectAttempts = 0
  /\ consecutive = 0 /\ lastDelay = 0 /\ scheduledTick = FALSE
  /\ stopped = FALSE /\ userCalls = 0
  /\ liveTimers = 0 /\ log = <<>> /\ dialogs = {}
  /\ sendCalls = 0 /\ transmitted = 0

RunParked == run = NoRun

(***************************************************************************)
(* The documents the runs start from, and the inputs.                      *)
(***************************************************************************)
ScenarioDoc ==
  << "    auto& n = chain.add<Noise>(\"noise\");",
     "    n.scale = 4.0f;" >>

ExprDoc ==
  << "    auto& n = chain.add<Noise>(\"noise\");",
     "    n.scale = 4.0f;",
     "    n.speed = t;" >>

\* a declaration at column 0 with no assignment after it
FlatDoc ==
  << "auto& n = chain.add<Noise>(\"noise\");" >>

InitDocs == {ScenarioDoc, ExprDoc, FlatDoc}

\* the parameters the runtime reports (param_values), all of type Float
Keys == {<<"noise", "scale">>, <<"noise", "speed">>}

ParamTypeOf(key) == "Float"

\* the values the inspector sends: 2.5 and 1.0 for scale, 1.0 for speed
ValuesOf(key) == IF key[2] = "scale" THEN {<<250>>, <<100>>} ELSE {<<100>>}

IdleProc ==
  [kind |-> "idle", pc |-> "idle", key |-> <<"", "">>, value |-> <<>>,
   paramType |-> "", sid |-> 0, edit |-> NoEdit]

Init ==
  /\ doc \in InitDocs
  /\ tree = cppParseChainFile(doc)
  /\ chainDocument = FALSE
  /\ parserInitialized = FALSE
  /\ paramMap = EmptyMap
  /\ operatorInfoMap = EmptyMap
  /\ cacheOwner = -1
  /\ pendingUpdates = EmptyMap
  /\ timers = {}
  /\ isUpdating = FALSE
  /\ pendingChangeLines = {}
  /\ procs = {}
  /\ currentParams = EmptyMap
  /\ nextSid = 1
  /\ superseded = {}
  /\ issued = {}
  /\ skipped = {}
  /\ lastScheduled = EmptyMap
  /\ extCount = 0
  /\ cancelled = {}
  /\ raised = {}
  /\ findable = TRUE
  /\ isClosed = FALSE
  /\ disk = doc
  /\ GateParked /\ ClientParked /\ RunParked

\* (a variant that leaves the entry in the map)
keepEntry(f, k) == f

Remove(f, k) == [x \in (DOMAIN f) \ {k} |-> f[x]]

(***************************************************************************)
(* The engine's fields as one record, so that the steps of an async call   *)
(* can be written as functions from engine state to engine state.          *)
(***************************************************************************)
Eng ==
  [chainDocument |-> chainDocument, parserInitialized |-> parserInitialized,
   paramMap |-> paramMap, operatorInfoMap |-> operatorInfoMap,
   cacheOwner |-> cacheOwner, isUpdating |-> isUpdating, raised |-> raised]

SetEng(e) ==
  /\ chainDocument' = e.chainDocument
  /\ parserInitialized' = e.parserInitialized
  /\ paramMap' = e.paramMap
  /\ operatorInfoMap' = e.operatorInfoMap
  /\ cacheOwner' = e.cacheOwner
  /\ isUpdating' = e.isUpdating
  /\ raised' = e.raised

Done(e) == [eng |-> e, rec |-> IdleProc]

(***************************************************************************)
(* applyParamUpdate from the return of its re-parse to its next await:     *)
(* a replace edit over the cached location when the parameter is cached,   *)
(* insertNewParam otherwise (nothing when the operator is unknown).  The   *)
(* busy flag is raised right before applyEdit is called.                   *)
(***************************************************************************)
\* (a variant that writes the assignment on top of the file when the operator
\* is unknown)
insertAtTop(e, rec, d) ==
  IF rec.kind = "parse" THEN Done(e)
  ELSE IF rec.key \in DOMAIN e.paramMap THEN
    [eng |-> [e EXCEPT !.isUpdating = TRUE],
     rec |-> [rec EXCEPT !.pc = "edit",
                !.edit = ReplaceEditFor(e.paramMap[rec.key], rec.value, rec.paramType)]]
  ELSE IF rec.key[1] \in DOMAIN e.operatorInfoMap THEN
    [eng |-> [e EXCEPT !.isUpdating = TRUE],
     rec |-> [rec EXCEPT !.pc = "edit",
                !.edit = InsertEditFor(d, e.operatorInfoMap, e.paramMap,
                                       rec.key, rec.value, rec.paramType)]]
  ELSE
    [eng |-> [e EXCEPT !.isUpdating = TRUE],
     rec |-> [rec EXCEPT !.pc = "edit",
                !.edit = [kind |-> "insert", line |-> 0, startColumn |-> 0,
                          endColumn |-> 0,
                          text |-> rec.key[1] \o "." \o rec.key[2] \o " = "
                                     \o FormatValue(rec.value, rec.paramType) \o ";"]]]

afterParse(e, rec, d) ==
  IF rec.kind = "parse" THEN Done(e)
  ELSE IF rec.key \in DOMAIN e.paramMap THEN
    [eng |-> [e EXCEPT !.isUpdating = TRUE],
     rec |-> [rec EXCEPT !.pc = "edit",
                !.edit = ReplaceEditFor(e.paramMap[rec.key], rec.value, rec.paramType)]]
  ELSE IF rec.key[1] \in DOMAIN e.operatorInfoMap THEN
    [eng |-> [e EXCEPT !.isUpdating = TRUE],
     rec |-> [rec EXCEPT !.pc = "edit",
                !.edit = InsertEditFor(d, e.operatorInfoMap, e.paramMap,
                                       rec.key, rec.value, rec.paramType)]]
  ELSE Done(e)

(***************************************************************************)
(* parseChainFile from `this.paramMap = {}` on: the caches are rebuilt     *)
(* from the text of the document as it is now (d is that text, tree its    *)
(* parse).                                                                 *)
(***************************************************************************)
\* (a variant that keeps a populated cache instead of rebuilding it)
reuseCache(e, rec, d) ==
  IF e.cacheOwner = -1
  THEN [e EXCEPT !.paramMap = BuildMaps(tree).paramMap,
                 !.operatorInfoMap = BuildMaps(tree).operatorInfoMap,
                 !.cacheOwner = rec.sid]
  ELSE e

\* (a variant that keeps the entries already cached and adds the new ones)
keepExisting(e, rec, d) ==
  LET fresh == BuildMaps(tree) IN
  [e EXCEPT !.paramMap = [k \in DOMAIN fresh.paramMap \cup DOMAIN e.paramMap |->
                            IF k \in DOMAIN e.paramMap THEN e.paramMap[k]
                            ELSE fresh.paramMap[k]],
            !.operatorInfoMap =
                [k \in DOMAIN fresh.operatorInfoMap \cup DOMAIN e.operatorInfoMap |->
                   IF k \in DOMAIN e.operatorInfoMap THEN e.operatorInfoMap[k]
                   ELSE fresh.operatorInfoMap[k]],
            !.cacheOwner = rec.sid]

rebuildCaches(e, rec, d) ==
  [e EXCEPT !.paramMap = BuildMaps(tree).paramMap,
            !.operatorInfoMap = BuildMaps(tree).operatorInfoMap,
            !.cacheOwner = rec.sid]

doParse(e, rec, d) == afterParse(rebuildCaches(e, rec, d), rec, d)

(***************************************************************************)
(* parseChainFile from its start to the first await that suspends it:      *)
(* findChainFile when no document is set, initializeParser when the        *)
(* parser is not initialized, and straight through otherwise.              *)
(***************************************************************************)
enterParse(e, rec, d) ==
  IF ~e.chainDocument THEN [eng |-> e, rec |-> [rec EXCEPT !.pc = "find"]]
  ELSE IF ~e.parserInitialized THEN [eng |-> e, rec |-> [rec EXCEPT !.pc = "init"]]
  ELSE doParse(e, rec, d)

\* (a variant that goes on as if the file had been found)
assumeFound(e, rec, d) ==
  LET e1 == [e EXCEPT !.chainDocument = TRUE]
  IN  IF ~e1.parserInitialized THEN [eng |-> e1, rec |-> [rec EXCEPT !.pc = "init"]]
      ELSE doParse(e1, rec, d)

\* findChainFile found no file.  parseChainFile goes on when the reference
\* was set by another call in the meantime and returns otherwise;
\* applyParamUpdate then issues no edit, since the replace path and
\* insertNewParam both return when the document reference is unset
notFound(e, rec, d) ==
  IF e.chainDocument
  THEN IF ~e.parserInitialized THEN [eng |-> e, rec |-> [rec EXCEPT !.pc = "init"]]
       ELSE doParse(e, rec, d)
  ELSE Done(e)

\* findChainFile returned: this.chainDocument is the opened document
afterFind(e, rec, d) ==
  LET e1 == [e EXCEPT !.chainDocument = TRUE]
  IN  IF ~e1.parserInitialized THEN [eng |-> e1, rec |-> [rec EXCEPT !.pc = "init"]]
      ELSE doParse(e1, rec, d)

\* initializeParser returned true; the caches are emptied, and getText() on
\* a document reference that was unset in the meantime throws
afterInit(e, rec, d) ==
  LET e1 == [e EXCEPT !.parserInitialized = TRUE]
  IN  IF ~e1.chainDocument
      THEN Done([e1 EXCEPT !.paramMap = EmptyMap, !.operatorInfoMap = EmptyMap,
                           !.cacheOwner = -1, !.raised = @ \cup {rec.sid}])
      ELSE doParse(e1, rec, d)

HasFree == Cardinality(procs) < MaxProcs

\* the outcome r of a step of the async call that was at `old` (IdleProc for
\* a call that starts)
Place(old, r) ==
  /\ SetEng(r.eng)
  /\ procs' = (procs \ {old}) \cup (IF r.rec.kind = "idle" THEN {} ELSE {r.rec})
  /\ issued' = IF r.rec.pc = "edit" /\ r.rec.kind = "apply"
               THEN issued \cup {r.rec.sid} ELSE issued

(***************************************************************************)
(* scheduleParamUpdate: the pending timer of the key, if any, is cleared;  *)
(* a new timer is started and recorded in pendingUpdates.                  *)
(***************************************************************************)
\* (a variant that leaves the old timer running)
keepTimers(tm, pu, key) == tm

clearPendingTimeout(tm, pu, key) ==
  IF key \in DOMAIN pu THEN {t \in tm : t.sid # pu[key].timeout} ELSE tm

scheduleParamUpdate(key, value, paramType) ==
  /\ timers' = clearPendingTimeout(timers, pendingUpdates, key)
                 \cup {[key |-> key, value |-> value, paramType |-> paramType,
                        sid |-> nextSid]}
  /\ pendingUpdates' = Upd(pendingUpdates, key, [value |-> value, timeout |-> nextSid])

(***************************************************************************)
(* The inspector's onParamChange callback: the change goes to the runtime  *)
(* and, when the parameter is in currentParams, to scheduleParamUpdate     *)
(* with the type the runtime reported.                                     *)
(***************************************************************************)
ParamChange(key, value) ==
  /\ UNCHANGED others
  /\ nextSid <= MaxSchedules
  /\ key \in DOMAIN currentParams
  /\ scheduleParamUpdate(key, value, currentParams[key].type)
  /\ nextSid' = nextSid + 1
  /\ superseded' = IF key \in DOMAIN pendingUpdates
                   THEN superseded \cup {[old |-> pendingUpdates[key].timeout,
                                          new |-> nextSid, value |-> value]}
                   ELSE superseded
  /\ lastScheduled' = Upd(lastScheduled, key, [value |-> value, sid |-> nextSid])
  /\ UNCHANGED <<doc, tree, chainDocument, parserInitialized, paramMap, operatorInfoMap,
                 cacheOwner, isUpdating, pendingChangeLines, procs, currentParams,
                 issued, skipped, extCount, cancelled, raised, env>>

(***************************************************************************)
(* A debounce timer fires: applyParamUpdate runs to its first await, then  *)
(* the callback deletes the key from pendingUpdates.  applyParamUpdate     *)
(* returns at once when the busy flag is set.                              *)
(***************************************************************************)
OtherWriteInFlight(key) ==
  \E r \in procs : r.pc \in {"edit", "landed"} /\ r.key # key

TimerFire(t) ==
  /\ UNCHANGED others
  /\ t \in timers
  /\ timers' = timers \ {t}
  /\ pendingUpdates' = Remove(pendingUpdates, t.key)
  /\ IF isUpdating
     THEN /\ skipped' = skipped \cup {[sid |-> t.sid, other |-> OtherWriteInFlight(t.key)]}
          /\ UNCHANGED <<chainDocument, parserInitialized, paramMap, operatorInfoMap,
                         cacheOwner, isUpdating, procs, issued, raised>>
     ELSE /\ HasFree
          /\ Place(IdleProc,
                   enterParse(Eng, [IdleProc EXCEPT !.kind = "apply", !.key = t.key,
                                      !.value = t.value, !.paramType = t.paramType,
                                      !.sid = t.sid], doc))
          /\ UNCHANGED skipped
  /\ UNCHANGED <<doc, tree, pendingChangeLines, currentParams, nextSid, superseded,
                 lastScheduled, extCount, cancelled, env>>

(***************************************************************************)
(* The awaits of parseChainFile resume.  openTextDocument returns the open *)
(* document of the file, and reads the file from disk when its document    *)
(* was closed.                                                             *)
(***************************************************************************)
FindResume(p) ==
  /\ UNCHANGED others
  /\ p \in procs /\ p.pc = "find"
  /\ doc' = IF findable /\ isClosed THEN disk ELSE doc
  /\ tree' = cppParseChainFile(doc')
  /\ isClosed' = (isClosed /\ ~findable)
  /\ Place(p, IF findable THEN afterFind(Eng, p, doc') ELSE notFound(Eng, p, doc'))
  /\ UNCHANGED <<pendingUpdates, timers, pendingChangeLines, currentParams,
                 nextSid, superseded, skipped, lastScheduled, extCount, cancelled,
                 findable, disk>>

InitResume(p) ==
  /\ UNCHANGED others
  /\ p \in procs /\ p.pc = "init"
  /\ Place(p, afterInit(Eng, p, doc))
  /\ UNCHANGED <<doc, tree, pendingUpdates, timers, pendingChangeLines, currentParams,
                 nextSid, superseded, skipped, lastScheduled, extCount, cancelled, env>>

\* (a variant that empties the caches and leaves the timers running)
keepPending ==
  /\ UNCHANGED <<timers, pendingUpdates>>
  /\ paramMap' = EmptyMap
  /\ operatorInfoMap' = EmptyMap
  /\ cacheOwner' = -1
  /\ chainDocument' = FALSE
  /\ cancelled' = cancelled \cup {t.sid : t \in timers}

(***************************************************************************)
(* onDocumentChanged: every pending timer is cleared, pendingUpdates and   *)
(* both caches are emptied and the document reference is unset.            *)
(***************************************************************************)
onDocumentChanged ==
  /\ timers' = {}
  /\ pendingUpdates' = EmptyMap
  /\ paramMap' = EmptyMap
  /\ operatorInfoMap' = EmptyMap
  /\ cacheOwner' = -1
  /\ chainDocument' = FALSE
  /\ cancelled' = cancelled \cup {t.sid : t \in timers}

(***************************************************************************)
(* The edit of an applyEdit call reaches the document.  The extension host *)
(* sees the new text and its onDidChangeTextDocument listener runs         *)
(* onDocumentChanged in the same turn; the applyEdit promise resolves      *)
(* later.  An edit for a file whose document was closed is applied to the  *)
(* text read from disk.                                                    *)
(***************************************************************************)
editLands(p) ==
  /\ p \in procs /\ p.pc = "edit"
  /\ doc' = ApplyEdit(IF isClosed THEN disk ELSE doc, p.edit)
  /\ tree' = cppParseChainFile(doc')
  /\ isClosed' = FALSE
  /\ onDocumentChanged
  /\ procs' = (procs \ {p}) \cup {[p EXCEPT !.pc = "landed"]}
  /\ UNCHANGED <<parserInitialized, isUpdating, pendingChangeLines, currentParams, hist,
                 findable, disk>>

EditLand(p) == UNCHANGED others /\ editLands(p)

(***************************************************************************)
(* The finally block around applyEdit, in applyParamUpdate and in          *)
(* insertNewParam: the value of the busy flag after it.                    *)
(***************************************************************************)
\* (a variant without the finally block)
flagKept(flag) == flag

finallyLowers(flag) == FALSE

(***************************************************************************)
(* applyParamUpdate / insertNewParam after `await applyEdit`: the cached   *)
(* location object is updated (it is still in paramMap only when no parse  *)
(* or invalidation replaced the map since), the line is marked, and the    *)
(* busy flag is lowered.                                                   *)
(***************************************************************************)
EditResolve(p) ==
  /\ UNCHANGED others
  /\ p \in procs /\ p.pc = "landed"
  /\ LET e == p.edit IN
     /\ paramMap' =
          IF e.kind = "replace" /\ cacheOwner = p.sid /\ p.key \in DOMAIN paramMap
          THEN [paramMap EXCEPT ![p.key] =
                  [@ EXCEPT !.endColumn = paramMap[p.key].startColumn + Len(e.text),
                            !.currentValue = e.text]]
          ELSE paramMap
     /\ pendingChangeLines' = pendingChangeLines \cup {e.line}
  /\ isUpdating' = finallyLowers(isUpdating)
  /\ procs' = procs \ {p}
  /\ UNCHANGED <<doc, tree, chainDocument, parserInitialized, operatorInfoMap, cacheOwner,
                 pendingUpdates, timers, currentParams, hist, cancelled, env>>

(***************************************************************************)
(* Another writer (the user typing, an agent's edit reloaded into the      *)
(* buffer) changes the document: a blank line is put on top, which moves   *)
(* every statement down by one line.  The listener runs onDocumentChanged. *)
(***************************************************************************)
ExternalDocs(d) == {<<"">> \o d}

ExternalEdit ==
  /\ UNCHANGED others
  /\ extCount < MaxExternal
  /\ \E d \in ExternalDocs(doc) : doc' = d
  /\ tree' = cppParseChainFile(doc')
  /\ onDocumentChanged
  /\ extCount' = extCount + 1
  /\ lastScheduled' = EmptyMap
  /\ UNCHANGED <<parserInitialized, isUpdating, pendingChangeLines, procs,
                 currentParams, nextSid, superseded, issued, skipped, raised, env>>

(***************************************************************************)
(* operator_list arrives: parseChainFile is started and not awaited.  One  *)
(* such parse is suspended at a time.                                      *)
(***************************************************************************)
OperatorList ==
  /\ UNCHANGED others
  /\ \A q \in procs : q.kind # "parse"
  /\ LET r == enterParse(Eng, [IdleProc EXCEPT !.kind = "parse"], doc) IN
     /\ r.rec.kind # "idle" => HasFree
     /\ Place(IdleProc, r)
  /\ UNCHANGED <<doc, tree, pendingUpdates, timers, pendingChangeLines, currentParams,
                 nextSid, superseded, skipped, lastScheduled, extCount, cancelled, env>>

(***************************************************************************)
(* isParamConstant: the cached flag, and true when nothing is cached.      *)
(***************************************************************************)
isParamConstant(key) ==
  IF key \in DOMAIN paramMap THEN paramMap[key].isConstant ELSE TRUE

(***************************************************************************)
(* param_values arrives: currentParams is the runtime's list with the      *)
(* engine's isConstant merged in.                                          *)
(***************************************************************************)
paramsWithConstantInfo ==
  [k \in Keys |-> [type |-> ParamTypeOf(k), isConstant |-> isParamConstant(k)]]

ParamValues ==
  /\ UNCHANGED others
  /\ currentParams' = paramsWithConstantInfo
  /\ currentParams' # currentParams
  /\ UNCHANGED <<doc, tree, chainDocument, parserInitialized, paramMap, operatorInfoMap,
                 cacheOwner, pendingUpdates, timers, isUpdating, pendingChangeLines,
                 procs, hist, cancelled, env>>

(***************************************************************************)
(* The runtime connection is lost: ChainCodeSync.clear() and the           *)
(* extension's lists are emptied.                                          *)
(***************************************************************************)
Disconnect ==
  /\ UNCHANGED others
  /\ currentParams # EmptyMap
  /\ onDocumentChanged
  /\ pendingChangeLines' = {}
  /\ currentParams' = EmptyMap
  /\ lastScheduled' = EmptyMap
  /\ UNCHANGED <<doc, tree, parserInitialized, isUpdating, procs, nextSid, superseded,
                 issued, skipped, extCount, raised, env>>

(***************************************************************************)
(* chain.cpp is saved: clearPendingDecorations.                            *)
(***************************************************************************)
clearPendingDecorations ==
  /\ pendingChangeLines' = {}
  /\ UNCHANGED <<doc, tree, chainDocument, parserInitialized, paramMap, operatorInfoMap,
                 cacheOwner, pendingUpdates, timers, isUpdating, procs,
                 currentParams, hist, cancelled, findable, isClosed>>

Save ==
  /\ UNCHANGED <<others, disk>>
  /\ pendingChangeLines # {}
  /\ clearPendingDecorations

Next ==
  \/ \E k \in Keys : \E v \in ValuesOf(k) : ParamChange(k, v)
  \/ \E t \in timers : TimerFire(t)
  \/ \E p \in procs : FindResume(p)
  \/ \E p \in procs : InitResume(p)
  \/ \E p \in procs : EditLand(p)
  \/ \E p \in procs : EditResolve(p)
  \/ ExternalEdit
  \/ OperatorList
  \/ ParamValues
  \/ Disconnect
  \/ Save

Spec == Init /\ [][Next]_vars

(***************************************************************************)
(* Properties.                                                             *)
(***************************************************************************)
Fresh == BuildMaps(tree)

Quiescent == timers = {} /\ procs = {}

\* the async calls that issue their edit (call applyEdit) in this step
Issuing == {r \in procs' : r.pc = "edit" /\ r \notin procs}

\* the async calls whose edit reaches the document in this step
Landing == {r \in procs : r.pc = "edit" /\ r \notin procs'
                            /\ [r EXCEPT !.pc = "landed"] \in procs'}

Settled(sid) ==
  /\ \A t \in timers : t.sid # sid
  /\ \A r \in procs : r.sid = sid => r.pc \notin {"find", "init"}
  /\ \A s \in superseded : s.old # sid

C2_AtMostOneEditInFlight ==
  Cardinality({r \in procs : r.pc = "edit"}) <= 1

\* C3: an update whose timer fired while an edit for another key was in
\* flight is not dropped: once nothing is pending or running any more, its
\* edit has been issued.
C3_BlockedNotDropped ==
  Quiescent => \A x \in skipped : x.other => x.sid \in issued

\* C4: the final scheduled value wins: with nothing pending or running, the
\* source holds, for every key, the last value scheduled for it since the
\* last external change.
C4_FinalValueWins ==
  Quiescent =>
    \A k \in DOMAIN lastScheduled :
      /\ k \in DOMAIN Fresh.paramMap
      /\ Fresh.paramMap[k].currentValue = FormatValue(lastScheduled[k].value, ParamTypeOf(k))

\* C5: a replace edit lands on the span the parameter's value has in the
\* text it lands on (stated for the runs without any external change, where
\* every change of the text is the engine's own).
C5_EditLandsOnCurrentSpan ==
  [][\A r \in Landing :
       (extCount = 0 /\ r.edit.kind = "replace") =>
         /\ r.key \in DOMAIN Fresh.paramMap
         /\ Fresh.paramMap[r.key].line = r.edit.line
         /\ Fresh.paramMap[r.key].startColumn = r.edit.startColumn
         /\ Fresh.paramMap[r.key].endColumn = r.edit.endColumn]_vars

\* C6: an edit is computed from the caches its own run rebuilt, after its
\* timer fired, from the text as it is when the edit is issued.
C6_EditFromFreshParse ==
  [][\A r \in Issuing :
       /\ cacheOwner' = r.sid
       /\ paramMap' = Fresh.paramMap
       /\ operatorInfoMap' = Fresh.operatorInfoMap
       /\ r.edit = IF r.key \in DOMAIN Fresh.paramMap
                   THEN ReplaceEditFor(Fresh.paramMap[r.key], r.value, r.paramType)
                   ELSE InsertEditFor(doc, Fresh.operatorInfoMap, Fresh.paramMap,
                                      r.key, r.value, r.paramType)]_vars

\* an edit issued after an external change moved the statement down a line
C6_Witness ==
  \E r \in procs :
    /\ r.pc = "edit" /\ r.edit.kind = "replace"
    /\ extCount = 1 /\ r.edit.line = 2
    /\ cacheOwner = r.sid

\* C7: no replace edit is issued over a value that is not a literal.
C7_NoOverwriteOfExpression ==
  [][\A r \in Issuing :
       r.edit.kind = "replace" => Fresh.paramMap[r.key].isConstant]_vars

\* C8: a parameter whose expression in the source is not a literal is
\* reported as non-constant (stated for the states after the first parse).
C8_NonLiteralReportedNonConstant ==
  parserInitialized =>
    \A k \in Keys :
      (k \in DOMAIN Fresh.paramMap /\ ~Fresh.paramMap[k].isConstant) => ~isParamConstant(k)

\* C9: on the scenario document, the update (noise, scale, [2.5]) of type
\* Float replaces exactly the span of 4.0f by 2.5f and nothing else.
ScenarioReplaced ==
  << "    auto& n = chain.add<Noise>(\"noise\");",
     "    n.scale = 2.5f;" >>

C9_ReplaceScenario ==
  [][\A r \in Landing :
       (/\ doc = ScenarioDoc
        /\ r.key = <<"noise", "scale">> /\ r.value = <<250>> /\ r.paramType = "Float") =>
         /\ r.edit.kind = "replace"
         /\ SubSeq(doc[r.edit.line + 1], r.edit.startColumn + 1, r.edit.endColumn) = "4.0f"
         /\ doc' = ScenarioReplaced]_vars

C9_Witness ==
  /\ doc = ScenarioReplaced
  /\ \E r \in procs : r.pc = "landed" /\ r.key = <<"noise", "scale">> /\ r.value = <<250>>

\* C10: on the scenario document, the update (noise, speed, [1.0]) of type
\* Float inserts the line `n.speed = 1.0f;` right after the scale line.
ScenarioInserted ==
  << "    auto& n = chain.add<Noise>(\"noise\");",
     "    n.scale = 4.0f;",
     "    n.speed = 1.0f;" >>

C10_InsertScenario ==
  [][\A r \in Landing :
       (/\ doc = ScenarioDoc
        /\ r.key = <<"noise", "speed">> /\ r.value = <<100>> /\ r.paramType = "Float") =>
         doc' = ScenarioInserted]_vars

\* C11: an update for a parameter that has no assignment, of a known entity,
\* computes an insertion at index max(declaration line, greatest line of a
\* known parameter of the entity) + 1, and when it is applied exactly one
\* line is added there: every other line of the document is kept.
KnownLines(entity) ==
  {Fresh.operatorInfoMap[entity].line}
    \cup {Fresh.paramMap[k].line : k \in {q \in DOMAIN Fresh.paramMap : q[1] = entity}}

C11_InsertionPlacement ==
  [][/\ \A r \in Issuing :
          r.edit.kind = "insert" =>
            /\ r.key \notin DOMAIN Fresh.paramMap
            /\ (r.edit.line - 1) \in KnownLines(r.key[1])
            /\ \A x \in KnownLines(r.key[1]) : x <= r.edit.line - 1
     /\ \A r \in Landing :
          r.edit.kind = "insert" =>
            /\ r.edit.line <= Len(doc)
            /\ Len(doc') = Len(doc) + 1
            /\ doc'[r.edit.line + 1] = r.edit.text
            /\ \A i \in 1..Len(doc) :
                 doc[i] = doc'[IF i <= r.edit.line THEN i ELSE i + 1]]_vars

\* an insertion that went after a parameter line, below the declaration
C11_Witness ==
  \E r \in procs :
    /\ r.pc = "landed" /\ r.edit.kind = "insert" /\ r.edit.line = 2
    /\ Len(doc) = 3 /\ doc[3] = r.edit.text

\* C12: the inserted line starts with exactly the leading whitespace of the
\* entity's declaration line, also when that line has none.
C12_InsertionIndentation ==
  [][\A r \in Issuing :
       r.edit.kind = "insert" =>
         LeadingWhitespace(r.edit.text)
           = LeadingWhitespace(doc[Fresh.operatorInfoMap[r.key[1]].line + 1])]_vars

\* C19: at most one live debounce timer, hence one pending update, per key.
C19_OnePendingPerKey ==
  \A t1 \in timers : \A t2 \in timers : t1.key = t2.key => t1 = t2

\* a key scheduled again while its timer was live: the new timer is the only one
C19_Witness ==
  \E s \in superseded : \E t \in timers : t.sid = s.new

\* C20: pendingUpdates has an entry for a key exactly when a timer for the
\* key is live, and the entry is the one of that timer (so a firing timer or
\* an invalidation removes the entry it belongs to and no newer one).
C20_PendingMatchesTimers ==
  /\ DOMAIN pendingUpdates = {t.key : t \in timers}
  /\ \A t \in timers :
       pendingUpdates[t.key].timeout = t.sid /\ pendingUpdates[t.key].value = t.value

\* the timer of a request that replaced an older one has fired
C20_Witness ==
  \E s \in superseded :
    /\ s.new \in issued
    /\ \A t \in timers : t.sid # s.new
    /\ pendingUpdates = EmptyMap

\* a step in which onDocumentChanged() or clear() ran: the text of the
\* document changed, or the connection was lost
Invalidating ==
  \/ doc' # doc
  \/ currentParams # EmptyMap /\ currentParams' = EmptyMap

\* C21: right after onDocumentChanged() or clear() the pending-update map,
\* both caches and the timers are empty and the document reference is unset;
\* a call whose timer was cleared by an invalidation never issues an edit
\* (its timer is gone, it never becomes a running update).
C21_InvalidationCancelsPending ==
  [][/\ Invalidating =>
          /\ pendingUpdates' = EmptyMap /\ timers' = {}
          /\ paramMap' = EmptyMap /\ operatorInfoMap' = EmptyMap
          /\ ~chainDocument'
     /\ \A sid \in cancelled' :
          /\ sid \notin issued'
          /\ \A t \in timers' : t.sid # sid
          /\ \A r \in procs' : r.kind = "apply" => r.sid # sid]_vars

\* an invalidation cleared a live timer, and another update was written
C21_Witness == cancelled # {} /\ issued # {}

\* the calls whose `await applyEdit` returns in this step
Resolving == {r \in procs : r.pc = "landed" /\ r \notin procs'}

\* C22: when the engine's own replace edit has completed, the cache still
\* holds the location of the written parameter, with endColumn = startColumn
\* + the length of the new text and currentValue = the new text.
C22_CacheKeptAfterOwnEdit ==
  [][\A r \in Resolving :
       r.edit.kind = "replace" =>
         /\ r.key \in DOMAIN paramMap'
         /\ paramMap'[r.key].endColumn = paramMap'[r.key].startColumn + Len(r.edit.text)
         /\ paramMap'[r.key].currentValue = r.edit.text]_vars

\* C26: no engine operation ends with an exception: under every interleaving
\* of parseChainFile and applyParamUpdate with onDocumentChanged() and
\* clear(), no call raises.
C26_NoExceptionEscapes == raised = {}

(***************************************************************************)
(* The engine before anything happened, for the specifications of the      *)
(* other components.                                                       *)
(***************************************************************************)
EngineParked ==
  /\ doc = <<>> /\ tree = cppParseChainFile(<<>>)
  /\ chainDocument = FALSE /\ parserInitialized = FALSE
  /\ paramMap = EmptyMap /\ operatorInfoMap = EmptyMap /\ cacheOwner = -1
  /\ pendingUpdates = EmptyMap /\ timers = {} /\ isUpdating = FALSE
  /\ pendingChangeLines = {} /\ procs = {} /\ currentParams = EmptyMap
  /\ nextSid = 1 /\ superseded = {} /\ issued = {} /\ skipped = {}
  /\ lastScheduled = EmptyMap /\ extCount = 0
  /\ cancelled = {} /\ raised = {} /\ findable = TRUE /\ isClosed = FALSE
  /\ disk = <<>>

(***************************************************************************)
(* One update of a literal parameter taken alone: applyParamUpdate on a    *)
(* quiet engine, step by step - the re-parse, the edit it computes, the    *)
(* edit applied to the text, and the parse that follows.                   *)
(***************************************************************************)
LiteralDoc ==
  << "    auto& n = chain.add<Noise>(\"noise\");",
     "    n.scale = 4.0f;",
     "    n.count = 3;",
     "    n.on = true;" >>

TightDoc ==
  << "auto& n = chain.add<Noise>(\"noise\");",
     "n.scale=0.25f; // base",
     "n.count=12;",
     "n.on=false;" >>

\* two assignments of the same parameter
DupDoc ==
  << "    auto& n = chain.add<Noise>(\"noise\");",
     "    n.scale = 1.0f;",
     "    n.scale = 4.0f;" >>

RunDocs == {LiteralDoc, TightDoc, DupDoc}

\* (key, type, value) requests: values at the precision of the type
FloatValues == {0, 5, 10, 99, 100, 150, 250, 1000, 1050, 12345, -5, -100, -150}

IntValues == {0, 100, 300, 1200, -300}

BoolValues == {0, 100}

Requests ==
  {[key |-> <<"noise", "scale">>, paramType |-> "Float", value |-> <<v>>] : v \in FloatValues}
    \cup {[key |-> <<"noise", "count">>, paramType |-> "Int", value |-> <<v>>] : v \in IntValues}
    \cup {[key |-> <<"noise", "on">>, paramType |-> "Bool", value |-> <<v>>] : v \in BoolValues}

RunInit ==
  /\ EngineParked /\ GateParked /\ ClientParked
  /\ \E d \in RunDocs : \E q \in Requests :
       run = [pc |-> "fired", doc |-> d, key |-> q.key, paramType |-> q.paramType,
              value |-> q.value]

\* await this.parseChainFile(); the location of the parameter is looked up
RunParse ==
  /\ run.pc = "fired"
  /\ LET maps == BuildMaps(cppParseChainFile(run.doc)) IN
     /\ run.key \in DOMAIN maps.paramMap
     /\ run' = [pc |-> "parsed", doc |-> run.doc, key |-> run.key,
                paramType |-> run.paramType, value |-> run.value,
                location |-> maps.paramMap[run.key]]
  /\ UNCHANGED <<engineVars, gateVars, clientVars>>

\* the value is formatted and the replace edit is built
RunEdit ==
  /\ run.pc = "parsed"
  /\ run' = [pc |-> "edited", doc |-> run.doc, key |-> run.key,
             paramType |-> run.paramType, value |-> run.value,
             location |-> run.location,
             edit |-> ReplaceEditFor(run.location, run.value, run.paramType)]
  /\ UNCHANGED <<engineVars, gateVars, clientVars>>

\* await applyEdit: the text changes
RunApply ==
  /\ run.pc = "edited"
  /\ run' = [pc |-> "applied", doc |-> ApplyEdit(run.doc, run.edit), before |-> run.doc,
             key |-> run.key, paramType |-> run.paramType, value |-> run.value,
             edit |-> run.edit]
  /\ UNCHANGED <<engineVars, gateVars, clientVars>>

\* the next parseChainFile: what the cache then holds for the parameter
RunReparse ==
  /\ run.pc = "applied"
  /\ LET maps == BuildMaps(cppParseChainFile(run.doc)) IN
     run' = [pc |-> "reparsed", doc |-> run.doc, before |-> run.before,
             key |-> run.key, paramType |-> run.paramType, value |-> run.value,
             edit |-> run.edit,
             found |-> run.key \in DOMAIN maps.paramMap,
             currentValue |-> IF run.key \in DOMAIN maps.paramMap
                              THEN maps.paramMap[run.key].currentValue ELSE ""]
  /\ UNCHANGED <<engineVars, gateVars, clientVars>>

RunNext ==
  \/ RunParse
  \/ RunEdit
  \/ RunApply
  \/ RunReparse

RunSpec == RunInit /\ [][RunNext]_vars

(***************************************************************************)
(* What a value text denotes, in hundredths: a C++ floating literal with   *)
(* at most two decimals and the suffix f, an integer literal, a boolean    *)
(* keyword; each with an optional leading minus sign.                      *)
(***************************************************************************)
DigitOf(c) == CHOOSE i \in 0..9 : DigitStr[i + 1] = c

AllDigits(s) == Len(s) >= 1 /\ \A i \in 1..Len(s) : Ch(s, i) \in Digits

RECURSIVE NatOf(_)
NatOf(s) ==
  IF Len(s) = 0 THEN 0
  ELSE 10 * NatOf(SubSeq(s, 1, Len(s) - 1)) + DigitOf(Ch(s, Len(s)))

Unsigned(text) ==
  IF Len(text) >= 1 /\ Ch(text, 1) = "-" THEN SubSeq(text, 2, Len(text)) ELSE text

Signed(text, n) == IF Len(text) >= 1 /\ Ch(text, 1) = "-" THEN -n ELSE n

FloatDenotes(text, v) ==
  LET body == Unsigned(text)
      num == SubSeq(body, 1, Len(body) - 1)
      dot == ScanTo(num, 1, ".")
      ip == SubSeq(num, 1, dot - 1)
      fp == SubSeq(num, dot + 1, Len(num))
  IN  /\ Len(body) >= 2 /\ Ch(body, Len(body)) = "f"
      /\ dot <= Len(num)
      /\ AllDigits(ip) /\ AllDigits(fp) /\ Len(fp) <= 2
      /\ Signed(text, NatOf(ip) * 100
                        + (IF Len(fp) = 1 THEN NatOf(fp) * 10 ELSE NatOf(fp))) = v

IntDenotes(text, v) ==
  /\ AllDigits(Unsigned(text))
  /\ Signed(text, NatOf(Unsigned(text))) * 100 = v

BoolDenotes(text, v) ==
  \/ text = "true" /\ v # 0
  \/ text = "false" /\ v = 0

Denotes(text, paramType, v) ==
  CASE paramType = "Float" -> FloatDenotes(text, v)
    [] paramType = "Int" -> IntDenotes(text, v)
    [] paramType = "Bool" -> BoolDenotes(text, v)
    [] OTHER -> FALSE

\* C13: round trip - after an update of a literal parameter with a value V
\* at the precision of its type, the parse that follows finds the parameter
\* and caches a value text that denotes V.
C13_RoundTrip ==
  run.pc = "reparsed" =>
    /\ run.found
    /\ Denotes(run.currentValue, run.paramType, run.value[1])

\* the Float -1.5 written over 0.25f and read back as -1.5f
C13_Witness ==
  /\ run.pc = "reparsed" /\ run.paramType = "Float" /\ run.value = <<-150>>
  /\ run.before = TightDoc /\ run.currentValue = "-1.5f"

\* the 0-based lines of d that hold an assignment of the parameter
AssignmentLines(d, key) ==
  LET maps == BuildMaps(cppParseChainFile(d)) IN
  {i \in 0..(Len(d) - 1) :
     LET T == Tokenize(d[i + 1], 1) IN
       /\ IsAssignment(T)
       /\ key[1] \in DOMAIN maps.operatorInfoMap
       /\ T[1].text = maps.operatorInfoMap[key[1]].variableName
       /\ T[3].text = key[2]}

LastOf(S) == CHOOSE i \in S : \A j \in S : j <= i

\* C28: when the text holds several assignments of the same (entity, param),
\* the location cached by a parse is that of the last one in document
\* order, and the replace edit that follows changes that line only.
C28_LastAssignmentWins ==
  /\ run.pc \in {"parsed", "edited"} =>
        run.location.line = LastOf(AssignmentLines(run.doc, run.key))
  /\ run.pc = "applied" =>
        /\ run.edit.line = LastOf(AssignmentLines(run.before, run.key))
        /\ Len(run.doc) = Len(run.before)
        /\ \A i \in 1..Len(run.doc) :
              i # run.edit.line + 1 => run.doc[i] = run.before[i]

\* scale written on the text with two assignments of it: the first is kept,
\* the second is rewritten
C28_Witness ==
  /\ run.pc = "applied" /\ run.before = DupDoc
  /\ run.doc[2] = DupDoc[2] /\ run.doc[3] # DupDoc[3]

(***************************************************************************)
(* The hook server: POST /prepare-for-edit.  A request carries the         *)
(* file_path of the edit the external writer is about to make.  When a     *)
(* dirty chain.cpp buffer exists and file_path ends with chain.cpp the     *)
(* handler awaits the three-button prompt, then save() or the revert       *)
(* command, and answers; in every other case, and when anything throws, it *)
(* answers proceed at once.                                                *)
(***************************************************************************)
FilePaths == {"chain.cpp", "other.cpp", ""}

Choices == {"Save Changes", "Discard Changes", "Cancel Edit", "dismissed"}

Request(id, path, pc, choice, response) ==
  [id |-> id, path |-> path, pc |-> pc, choice |-> choice, response |-> response]

GateInit ==
  /\ EngineParked /\ ClientParked /\ RunParked
  /\ dirty \in BOOLEAN /\ requests = {} /\ nextReq = 0 /\ sliderEdits = 0

\* req.on('end'): the body is parsed and the dirty buffer is looked up
RequestArrives(path) ==
  /\ nextReq < MaxRequests
  /\ nextReq' = nextReq + 1
  /\ requests' = requests \cup
       {IF dirty /\ path = "chain.cpp"
        THEN Request(nextReq, path, "prompt", "none", "none")
        ELSE Request(nextReq, path, "done", "none", "proceed")}
  /\ UNCHANGED <<dirty, sliderEdits, engineVars, clientVars, run>>

\* (a variant that takes a dismissed prompt for a go-ahead)
dismissedProceeds(q, choice) ==
  IF choice = "Save Changes" THEN [q EXCEPT !.pc = "saving", !.choice = choice]
  ELSE IF choice = "Discard Changes" THEN [q EXCEPT !.pc = "reverting", !.choice = choice]
  ELSE IF choice = "Cancel Edit"
  THEN [q EXCEPT !.pc = "done", !.choice = choice, !.response = "cancel"]
  ELSE [q EXCEPT !.pc = "done", !.choice = choice, !.response = "proceed"]

\* the branch taken on the prompt's result
afterChoice(q, choice) ==
  IF choice = "Save Changes" THEN [q EXCEPT !.pc = "saving", !.choice = choice]
  ELSE IF choice = "Discard Changes" THEN [q EXCEPT !.pc = "reverting", !.choice = choice]
  ELSE [q EXCEPT !.pc = "done", !.choice = choice, !.response = "cancel"]

\* showWarningMessage resolves with the button picked, or undefined
PromptResolves(q, choice) ==
  /\ q \in requests /\ q.pc = "prompt"
  /\ requests' = (requests \ {q}) \cup {afterChoice(q, choice)}
  /\ UNCHANGED <<dirty, nextReq, sliderEdits, engineVars, clientVars, run>>

\* dirtyChainDoc.save() settles: the buffer is written (ok), or it is not
\* (save() yields false or rejects); the answer is proceed either way
SaveSettles(q, ok) ==
  /\ q \in requests /\ q.pc = "saving"
  /\ dirty' = IF ok THEN FALSE ELSE dirty
  /\ requests' = (requests \ {q}) \cup {[q EXCEPT !.pc = "done", !.response = "proceed"]}
  /\ UNCHANGED <<nextReq, sliderEdits, engineVars, clientVars, run>>

\* the revert command settles: the buffer is reverted (ok) or the command
\* rejects; the answer is proceed either way
RevertSettles(q, ok) ==
  /\ q \in requests /\ q.pc = "reverting"
  /\ dirty' = IF ok THEN FALSE ELSE dirty
  /\ requests' = (requests \ {q}) \cup {[q EXCEPT !.pc = "done", !.response = "proceed"]}
  /\ UNCHANGED <<nextReq, sliderEdits, engineVars, clientVars, run>>

\* an edit of the engine is applied to the buffer (a slider was moved)
SliderEdit ==
  /\ sliderEdits < MaxSliderEdits
  /\ sliderEdits' = sliderEdits + 1
  /\ dirty' = TRUE
  /\ UNCHANGED <<requests, nextReq, engineVars, clientVars, run>>

GateNext ==
  \/ \E path \in FilePaths : RequestArrives(path)
  \/ \E q \in requests : \E choice \in Choices : PromptResolves(q, choice)
  \/ \E q \in requests : \E ok \in BOOLEAN : SaveSettles(q, ok)
  \/ \E q \in requests : \E ok \in BOOLEAN : RevertSettles(q, ok)
  \/ SliderEdit

GateSpec == GateInit /\ [][GateNext]_vars

\* the requests answered in this step
Answering == {q \in requests' : q.response # "none" /\ q \notin requests}

\* the requests that named chain.cpp while its buffer was dirty
Gated(q) == q.pc # "done" \/ q.choice # "none"

\* C14: a request naming chain.cpp while the buffer is dirty is not answered
\* before the prompt is resolved; the answer is cancel exactly when the
\* choice is Cancel Edit or the prompt was dismissed, and proceed when it is
\* Save Changes or Discard Changes.
C14_GateBlocksUntilResolved ==
  \A q \in requests :
    Gated(q) =>
      /\ q.response # "none" => q.choice # "none"
      /\ q.response = "cancel" <=>
           (q.pc = "done" /\ q.choice \in {"Cancel Edit", "dismissed"})
      /\ (q.pc = "done" /\ q.choice \in {"Save Changes", "Discard Changes"}) =>
           q.response = "proceed"

\* one request answered cancel on a dismissed prompt, another answered
\* proceed after Save Changes
C14_Witness ==
  /\ \E q \in requests : q.choice = "dismissed" /\ q.response = "cancel"
  /\ \E q \in requests : q.choice = "Save Changes" /\ q.response = "proceed"

\* C15: whenever the gate answers proceed for chain.cpp the buffer has no
\* unsaved modifications at that moment.
C15_ProceedOnlyWhenClean ==
  [][\A q \in Answering :
       (q.path = "chain.cpp" /\ q.response = "proceed") => ~dirty']_vars

(***************************************************************************)
(* RuntimeClient: connect, disconnect, the socket's open and close         *)
(* handlers, and scheduleReconnect with its timer callback.                *)
(***************************************************************************)
maxReconnectAttempts == 10

baseDelayMs == 1000

maxDelayMs == 30000

RECURSIVE Pow2(_)
Pow2(n) == IF n = 0 THEN 1 ELSE 2 * Pow2(n - 1)

\* (a variant without the cap)
uncappedDelay(n) == baseDelayMs * Pow2(n)

\* Math.min(1000 * Math.pow(2, this.reconnectAttempts), 30000)
delayFor(n) == Min(baseDelayMs * Pow2(n), maxDelayMs)

\* (a variant that never gives up)
neverGivesUp(n) == FALSE

limitReached(n) == n >= maxReconnectAttempts

\* (a variant that sets a timer whether or not one is pending)
ignoresPending(timer) == TRUE

\* if (!this.reconnectTimer)
timerIdle(timer) == timer = 0

\* scheduleReconnect: the value of this.reconnectTimer after the call
scheduleReconnect(timer, attempts) ==
  IF limitReached(attempts) THEN timer
  ELSE IF timerIdle(timer) THEN delayFor(attempts) ELSE timer

ClientInit ==
  /\ EngineParked /\ GateParked /\ RunParked
  /\ ClientParked

NumDetached == detached.connecting + detached.open + detached.closing

\* the timer after a step that had it at `timer` (after cleanup() or
\* after the timer fired) and may call scheduleReconnect, with the history
\* of the timers set.  A handle leaves the live ones when it fires or when
\* clearTimeout is called on it, which is when the field goes to null; a
\* handle is added by every setTimeout call.
SetTimer(timer, attempts, schedules, delayBefore) ==
  LET t == IF schedules THEN scheduleReconnect(timer, attempts) ELSE timer
      gone == IF reconnectTimer # 0 /\ timer = 0 THEN 1 ELSE 0
      set == IF schedules /\ ~limitReached(attempts) /\ timerIdle(timer) THEN 1 ELSE 0
  IN
  /\ reconnectTimer' = t
  /\ scheduledTick' = IF t # timer THEN ~scheduledTick ELSE scheduledTick
  /\ lastDelay' = IF t # timer THEN t ELSE delayBefore
  /\ liveTimers' = (liveTimers - gone) + set

\* connect(): cleanup(), then a new socket replaces this.ws; the socket that
\* this.ws referred to is not closed and keeps its handlers.  When the
\* WebSocket constructor throws, this.ws is left as it was and
\* scheduleReconnect() is called.
connect(attempts, throws) ==
  /\ IF throws THEN UNCHANGED <<ws, detached>>
     ELSE /\ ws' = "connecting"
          /\ IF ws \in {"connecting", "open"}
             THEN /\ NumDetached < MaxDetached
                  /\ detached' = [detached EXCEPT ![ws] = @ + 1]
             ELSE UNCHANGED detached
  /\ SetTimer(0, attempts, throws, lastDelay)

\* the extension calls connect()
UserConnect(throws) ==
  /\ userCalls < MaxUserCalls
  /\ userCalls' = userCalls + 1
  /\ stopped' = FALSE
  /\ connect(reconnectAttempts, throws)
  /\ UNCHANGED <<reconnectAttempts, consecutive, wire, engineVars, gateVars, run>>

\* the reconnect timer fires
ReconnectFires(throws) ==
  /\ reconnectTimer # 0
  /\ reconnectAttempts' = reconnectAttempts + 1
  /\ consecutive' = consecutive + 1
  /\ connect(reconnectAttempts + 1, throws)
  /\ UNCHANGED <<stopped, userCalls, wire, engineVars, gateVars, run>>

\* 'open' on the socket this.ws refers to
SocketOpens ==
  /\ ws = "connecting"
  /\ ws' = "open"
  /\ reconnectAttempts' = 0
  /\ consecutive' = 0
  /\ SetTimer(reconnectTimer, 0, FALSE, 0)
  /\ UNCHANGED <<detached, stopped, userCalls, wire, engineVars, gateVars, run>>

\* 'close' on the socket this.ws refers to (the attempt failed, or the
\* runtime went away): scheduleReconnect()
SocketCloses ==
  /\ ws \in {"connecting", "open"}
  /\ ws' = "closed"
  /\ SetTimer(reconnectTimer, reconnectAttempts, TRUE, lastDelay)
  /\ UNCHANGED <<detached, reconnectAttempts, consecutive, stopped, userCalls,
                 wire, engineVars, gateVars, run>>

\* 'open' on a socket the client no longer refers to
DetachedOpens ==
  /\ detached.connecting > 0
  /\ detached' = [detached EXCEPT !.connecting = @ - 1, !.open = @ + 1]
  /\ reconnectAttempts' = 0
  /\ consecutive' = 0
  /\ SetTimer(reconnectTimer, 0, FALSE, 0)
  /\ UNCHANGED <<ws, stopped, userCalls, wire, engineVars, gateVars, run>>

\* 'close' on a socket the client no longer refers to, among them the one
\* disconnect() closed: scheduleReconnect()
DetachedCloses(state) ==
  /\ detached[state] > 0
  /\ detached' = [detached EXCEPT ![state] = @ - 1]
  /\ SetTimer(reconnectTimer, reconnectAttempts, TRUE, lastDelay)
  /\ UNCHANGED <<ws, reconnectAttempts, consecutive, stopped, userCalls,
                 wire, engineVars, gateVars, run>>

\* disconnect() (the Stop Runtime command): cleanup(), this.ws.close() and
\* this.ws = null; the close event of the socket comes later
disconnect ==
  /\ userCalls > 0 /\ ~stopped
  /\ stopped' = TRUE
  /\ ws' = "null"
  /\ IF ws \in {"connecting", "open"}
     THEN /\ NumDetached < MaxDetached
          /\ detached' = [detached EXCEPT !.closing = @ + 1]
     ELSE UNCHANGED detached
  /\ SetTimer(0, reconnectAttempts, FALSE, lastDelay)
  /\ UNCHANGED <<reconnectAttempts, consecutive, userCalls, wire, engineVars, gateVars, run>>

ClientNext ==
  \/ \E throws \in BOOLEAN : UserConnect(throws)
  \/ \E throws \in BOOLEAN : ReconnectFires(throws)
  \/ SocketOpens
  \/ SocketCloses
  \/ DetachedOpens
  \/ \E state \in {"connecting", "open", "closing"} : DetachedCloses(state)
  \/ disconnect

ClientSpec == ClientInit /\ [][ClientNext]_vars

\* C16: the reconnect timer set after n consecutive reconnect attempts has
\* the delay min(1000 * 2^n, 30000) ms: it never exceeds the cap and is never
\* shorter than the delay of the timer set before it since the last open.
C16_BackoffDelay ==
  [][scheduledTick' # scheduledTick =>
       /\ reconnectTimer' = (IF 1000 * Pow2(consecutive') < 30000
                             THEN 1000 * Pow2(consecutive') ELSE 30000)
       /\ reconnectTimer' <= 30000
       /\ lastDelay <= reconnectTimer']_vars

\* the sixth timer in a row: 32000 ms is cut to the cap after 16000 ms
C16_Witness ==
  reconnectTimer = 30000 /\ consecutive = 5 /\ lastDelay = 30000

\* C17: never more than 10 reconnect attempts without an open in between,
\* and once the limit is reached no reconnect timer is pending.
C17_ReconnectBounded ==
  /\ consecutive <= 10
  /\ reconnectAttempts <= 10
  /\ reconnectAttempts >= 10 => reconnectTimer = 0

\* the client has given up: ten attempts failed, the last socket is closed
\* and no timer is pending
C17_Witness ==
  /\ consecutive = 10 /\ ws = "closed" /\ detached = NoDetached
  /\ reconnectTimer = 0 /\ ~stopped

\* C18: after disconnect() and until the next connect() call by the
\* extension, no reconnect timer is pending and no connection is open or
\* being opened.
C18_NoReconnectAfterDisconnect ==
  stopped => (reconnectTimer = 0 /\ ws = "null")

(***************************************************************************)
(* The engine in a workspace that fails: chain.cpp may be missing from the *)
(* workspace (findFiles returns no file), the text may hold no operator    *)
(* declaration the parser recognises, and applyEdit may report failure or  *)
(* throw without changing the document.                                    *)
(***************************************************************************)
\* a declaration without a reference declarator: the parse yields no operator
\* and, with no operator variable known, no parameter
NoOperatorDoc ==
  << "    auto n = chain.add<Noise>(\"noise\");",
     "    n.scale = 4.0f;" >>

FaultDocs == {ScenarioDoc, NoOperatorDoc}

FaultInit ==
  /\ doc \in FaultDocs
  /\ tree = cppParseChainFile(doc)
  /\ findable \in BOOLEAN
  /\ chainDocument = FALSE /\ parserInitialized = FALSE
  /\ paramMap = EmptyMap /\ operatorInfoMap = EmptyMap /\ cacheOwner = -1
  /\ pendingUpdates = EmptyMap /\ timers = {} /\ isUpdating = FALSE
  /\ pendingChangeLines = {} /\ procs = {} /\ currentParams = EmptyMap
  /\ nextSid = 1 /\ superseded = {} /\ issued = {} /\ skipped = {}
  /\ lastScheduled = EmptyMap /\ extCount = 0
  /\ cancelled = {} /\ raised = {} /\ isClosed = FALSE /\ disk = doc
  /\ GateParked /\ ClientParked /\ RunParked

\* applyEdit settles without having changed the document.  When it resolves
\* false the code goes on as after a successful edit (the result is not
\* looked at); when it throws, only the finally block runs and the call
\* ends with the exception.
EditFails(p, throws) ==
  /\ UNCHANGED others
  /\ p \in procs /\ p.pc = "edit"
  /\ LET e == p.edit IN
     IF throws
     THEN /\ raised' = raised \cup {p.sid}
          /\ UNCHANGED <<paramMap, pendingChangeLines>>
     ELSE /\ paramMap' =
               IF e.kind = "replace" /\ cacheOwner = p.sid /\ p.key \in DOMAIN paramMap
               THEN [paramMap EXCEPT ![p.key] =
                       [@ EXCEPT !.endColumn = paramMap[p.key].startColumn + Len(e.text),
                                 !.currentValue = e.text]]
               ELSE paramMap
          /\ pendingChangeLines' = pendingChangeLines \cup {e.line}
          /\ UNCHANGED raised
  /\ isUpdating' = finallyLowers(isUpdating)
  /\ procs' = procs \ {p}
  /\ UNCHANGED <<doc, tree, chainDocument, parserInitialized, operatorInfoMap, cacheOwner,
                 pendingUpdates, timers, currentParams, nextSid, superseded, issued,
                 skipped, lastScheduled, extCount, cancelled, env>>

\* chain.cpp leaves the workspace, or comes back; an open document stays open
FileRemoved ==
  /\ UNCHANGED others
  /\ findable /\ findable' = FALSE
  /\ UNCHANGED <<doc, tree, chainDocument, parserInitialized, paramMap, operatorInfoMap,
                 cacheOwner, pendingUpdates, timers, isUpdating, pendingChangeLines,
                 procs, currentParams, hist, cancelled, isClosed, disk>>

FileAppears ==
  /\ UNCHANGED others
  /\ ~findable /\ findable' = TRUE
  /\ UNCHANGED <<doc, tree, chainDocument, parserInitialized, paramMap, operatorInfoMap,
                 cacheOwner, pendingUpdates, timers, isUpdating, pendingChangeLines,
                 procs, currentParams, hist, cancelled, isClosed, disk>>

FaultNext ==
  \/ \E k \in Keys : \E v \in ValuesOf(k) : ParamChange(k, v)
  \/ \E t \in timers : TimerFire(t)
  \/ \E p \in procs : FindResume(p)
  \/ \E p \in procs : InitResume(p)
  \/ \E p \in procs : EditLand(p)
  \/ \E p \in procs : EditResolve(p)
  \/ \E p \in procs : \E throws \in BOOLEAN : EditFails(p, throws)
  \/ ParamValues
  \/ Disconnect
  \/ FileRemoved
  \/ FileAppears

FaultSpec == FaultInit /\ [][FaultNext]_vars

\* the parse of call sid has just rebuilt the caches
ParsedBy(sid) == cacheOwner' = sid /\ cacheOwner # sid

\* the text of the document yields no entity and no parameter
EmptyResults == Fresh.operatorInfoMap = EmptyMap /\ Fresh.paramMap = EmptyMap

Failing == {r \in procs : r.pc = "edit" /\ \A q \in procs' : q.sid # r.sid}

\* C24: when applying the edit fails (applyEdit reports failure or throws),
\* the caches are empty afterwards and the line is not recorded as a pending
\* change (the cached location is not updated as if the write had succeeded).
C24_WriteFailureInvalidates ==
  [][\A r \in Failing :
       /\ paramMap' = EmptyMap /\ operatorInfoMap' = EmptyMap
       /\ pendingChangeLines' = pendingChangeLines]_vars

\* C25: when the engine tracks no document and no file can be found, a fired
\* update issues no edit, records no pending-change line, leaves both caches
\* empty and does not touch the busy flag; an update whose lookup finds the
\* file takes the document and goes on to its parse.
C25_FileNotFoundInert ==
  [][\A p \in procs :
       (p.kind = "apply" /\ p.pc = "find" /\ p \notin procs') =>
          /\ (~findable /\ ~chainDocument) =>
                /\ \A q \in procs' : q.sid # p.sid
                /\ p.sid \notin issued' /\ raised' = raised
                /\ doc' = doc
                /\ pendingChangeLines' = pendingChangeLines
                /\ paramMap' = EmptyMap /\ operatorInfoMap' = EmptyMap
                /\ isUpdating' = isUpdating
          /\ findable =>
                /\ chainDocument'
                /\ parserInitialized =>
                     /\ cacheOwner' = p.sid
                     /\ paramMap' = Fresh.paramMap
                     /\ operatorInfoMap' = Fresh.operatorInfoMap]_vars

\* the first update found no file and ended without an edit; the file came
\* back and the second update was written
C25_Witness ==
  /\ findable /\ nextSid = 3 /\ issued = {2}
  /\ Fresh.operatorInfoMap # EmptyMap
  /\ 1 \notin cancelled \cup raised
  /\ \A s \in skipped : s.sid # 1
  /\ \A s \in superseded : s.old # 1
  /\ \A r \in procs : r.sid # 1
  /\ \A t \in timers : t.sid # 1

\* C27: after a re-parse completes on a found document, both caches hold
\* exactly the entries derived from the text of the document as it is; no
\* location from an earlier parse or an earlier edit survives.
C27_WholesaleReplacement ==
  [][cacheOwner' \notin {cacheOwner, -1} =>
       /\ paramMap' = BuildMaps(tree').paramMap
       /\ operatorInfoMap' = BuildMaps(tree').operatorInfoMap]_vars

\* the first update's applyEdit failed after its cached location had been
\* rewritten; the second update's parse then replaced the cache
C27_Witness ==
  /\ cacheOwner = 2 /\ issued = {1, 2}
  /\ pendingChangeLines # {} /\ doc = ScenarioDoc
  /\ paramMap # EmptyMap /\ paramMap = Fresh.paramMap

(***************************************************************************)
(* The engine and the buffer of chain.cpp: the buffer becomes dirty with   *)
(* an edit, clean with a save or a revert; the file changes on disk under  *)
(* it (the extension's file watcher); its document is closed.  dirty is    *)
(* TextDocument.isDirty of chain.cpp, as in the pre-edit gate.             *)
(***************************************************************************)
gateRest == <<requests, nextReq, sliderEdits>>

BufferInit ==
  /\ doc = ScenarioDoc
  /\ tree = cppParseChainFile(doc)
  /\ chainDocument = FALSE /\ parserInitialized = FALSE
  /\ paramMap = EmptyMap /\ operatorInfoMap = EmptyMap /\ cacheOwner = -1
  /\ pendingUpdates = EmptyMap /\ timers = {} /\ isUpdating = FALSE
  /\ pendingChangeLines = {} /\ procs = {} /\ currentParams = EmptyMap
  /\ nextSid = 1 /\ superseded = {} /\ issued = {} /\ skipped = {}
  /\ lastScheduled = EmptyMap /\ extCount = 0
  /\ cancelled = {} /\ raised = {} /\ findable = TRUE /\ isClosed = FALSE
  /\ disk = doc
  /\ GateParked /\ ClientParked /\ RunParked

\* the engine's edit reaches the buffer, which is dirty from then on
BufferEdit(p) ==
  /\ editLands(p)
  /\ dirty' = TRUE
  /\ UNCHANGED <<gateRest, clientVars, run>>

\* the user saves chain.cpp: the text goes to disk and the
\* onDidSaveTextDocument listener runs clearPendingDecorations
BufferSave ==
  /\ dirty /\ ~isClosed
  /\ dirty' = FALSE
  /\ disk' = doc
  /\ clearPendingDecorations
  /\ UNCHANGED <<gateRest, clientVars, run>>

\* workbench.action.files.revert on the dirty buffer: the text is the text
\* on disk again; the change listener runs onDocumentChanged
BufferRevert ==
  /\ dirty /\ ~isClosed
  /\ dirty' = FALSE
  /\ doc' = disk
  /\ tree' = cppParseChainFile(doc')
  /\ onDocumentChanged
  /\ lastScheduled' = EmptyMap
  /\ UNCHANGED <<parserInitialized, isUpdating, pendingChangeLines, procs,
                 currentParams, nextSid, superseded, issued, skipped, extCount, raised,
                 env>>
  /\ UNCHANGED <<gateRest, clientVars, run>>

\* chainFileWatcher.onDidChange with a clean open buffer: the buffer is
\* reverted to the new text on disk and onDocumentChanged is called
WatcherClean ==
  /\ extCount < MaxExternal
  /\ ~isClosed /\ ~dirty
  /\ \E d \in ExternalDocs(disk) : disk' = d
  /\ doc' = disk'
  /\ tree' = cppParseChainFile(doc')
  /\ onDocumentChanged
  /\ extCount' = extCount + 1
  /\ lastScheduled' = EmptyMap
  /\ UNCHANGED <<parserInitialized, isUpdating, pendingChangeLines, procs,
                 currentParams, nextSid, superseded, issued, skipped, raised,
                 findable, isClosed>>
  /\ UNCHANGED others

\* chainFileWatcher.onDidChange with a dirty open buffer: the user is asked;
\* 'Reload' reverts the buffer and calls onDocumentChanged, 'Ignore' (or the
\* prompt dismissed) leaves the buffer as it is
WatcherDirty(choice) ==
  /\ extCount < MaxExternal
  /\ ~isClosed /\ dirty
  /\ \E d \in ExternalDocs(disk) : disk' = d
  /\ extCount' = extCount + 1
  /\ IF choice = "Reload"
     THEN /\ dirty' = FALSE
          /\ doc' = disk'
          /\ tree' = cppParseChainFile(doc')
          /\ onDocumentChanged
          /\ lastScheduled' = EmptyMap
     ELSE UNCHANGED <<dirty, doc, tree, timers, pendingUpdates, paramMap, operatorInfoMap,
                      cacheOwner, chainDocument, cancelled, lastScheduled>>
  /\ UNCHANGED <<parserInitialized, isUpdating, pendingChangeLines, procs,
                 currentParams, nextSid, superseded, issued, skipped, raised,
                 findable, isClosed>>
  /\ UNCHANGED <<gateRest, clientVars, run>>

\* chainFileWatcher.onDidChange when no document of the file is open: the
\* handler does nothing
WatcherClosed ==
  /\ extCount < MaxExternal
  /\ isClosed
  /\ \E d \in ExternalDocs(disk) : disk' = d
  /\ extCount' = extCount + 1
  /\ UNCHANGED <<doc, tree, chainDocument, parserInitialized, paramMap, operatorInfoMap,
                 cacheOwner, pendingUpdates, timers, isUpdating, pendingChangeLines,
                 procs, currentParams, nextSid, superseded, issued, skipped,
                 lastScheduled, cancelled, raised, findable, isClosed>>
  /\ UNCHANGED others

\* the user closes the clean document of chain.cpp; the extension registers
\* no listener for it
CloseDocument ==
  /\ ~isClosed /\ ~dirty
  /\ isClosed' = TRUE
  /\ UNCHANGED <<doc, tree, chainDocument, parserInitialized, paramMap, operatorInfoMap,
                 cacheOwner, pendingUpdates, timers, isUpdating, pendingChangeLines,
                 procs, currentParams, hist, cancelled, findable, disk>>
  /\ UNCHANGED others

BufferNext ==
  \/ \E k \in Keys : \E v \in ValuesOf(k) : ParamChange(k, v)
  \/ \E t \in timers : TimerFire(t)
  \/ \E p \in procs : FindResume(p)
  \/ \E p \in procs : InitResume(p)
  \/ \E p \in procs : BufferEdit(p)
  \/ \E p \in procs : EditResolve(p)
  \/ ParamValues
  \/ BufferSave
  \/ BufferRevert
  \/ WatcherClean
  \/ \E choice \in {"Reload", "Ignore"} : WatcherDirty(choice)
  \/ WatcherClosed
  \/ CloseDocument

BufferSpec == BufferInit /\ [][BufferNext]_vars

\* C29: after the tracked document is closed, the caches are empty and the
\* document reference is unset.
C29_ClosedMeansUnparsed ==
  isClosed => (~chainDocument /\ paramMap = EmptyMap /\ operatorInfoMap = EmptyMap)

\* C30: when the tracked file changes on disk while its open buffer has no
\* unsaved modifications, the location cache is invalidated and the
\* pending-change marker set is empty afterwards.
C30_CleanExternalChange ==
  [][(disk' # disk /\ ~dirty /\ ~isClosed) =>
       /\ paramMap' = EmptyMap /\ operatorInfoMap' = EmptyMap /\ ~chainDocument'
       /\ pendingChangeLines' = {}]_vars

\* C31: a line enters the marker set only when the engine has applied a
\* replace edit on it or inserted it: every line added to pendingChangeLines
\* is the line of an edit that reached the document and whose applyEdit
\* returns in that step.
C31_MarkersOnlyForAppliedEdits ==
  [][\A l \in pendingChangeLines' \ pendingChangeLines :
       \E r \in Resolving : r.edit.line = l]_vars

\* The promise returned by applyEdit settles: the await in applyParamUpdate
\* or insertNewParam returns or throws.
Settles ==
  \E p \in procs : EditResolve(p) \/ \E throws \in BOOLEAN : EditFails(p, throws)

FaultLive == FaultSpec /\ WF_vars(Settles)

InFlight(ps) == {r \in ps : r.pc \in {"edit", "landed"}}

\* C36: the busy flag is always released: after an edit application
\* completes, fails or throws isUpdating is false; isUpdating is never true
\* with no edit in flight; and a raised flag is eventually lowered.
C36_BusyFlagReleased ==
  /\ [][/\ Resolving \cup Failing # {} => ~isUpdating'
        /\ isUpdating' => InFlight(procs') # {}]_vars
  /\ isUpdating ~> ~isUpdating

\* an edit application has thrown and the flag is down with nothing in flight
C36_Witness == raised # {} /\ ~isUpdating /\ InFlight(procs) = {} /\ pendingChangeLines # {}

(***************************************************************************)
(* The formatting switch on its own.  A value arrives as the number array  *)
(* of a param_values entry with as many components as its type has; a     *)
(* type the switch does not name ("String") arrives with one component.    *)
(* The value text is built exactly as applyParamUpdate and insertNewParam  *)
(* build it.                                                               *)
(***************************************************************************)
ParamTypes == {"Float", "Int", "Bool", "Vec2", "Vec3", "Vec4", "Color", "String"}

ComponentValues == {0, 125, 250, -150}

ArityOf(paramType) ==
  CASE paramType = "Vec2" -> 2
    [] paramType = "Vec3" -> 3
    [] paramType \in {"Vec4", "Color"} -> 4
    [] OTHER -> 1

FormatInit ==
  /\ EngineParked /\ GateParked /\ ClientParked
  /\ \E paramType \in ParamTypes :
       \E value \in [1..ArityOf(paramType) -> ComponentValues] :
         run = [pc |-> "format", paramType |-> paramType, value |-> value]

Format ==
  /\ run.pc = "format"
  /\ run' = [pc |-> "formatted", paramType |-> run.paramType, value |-> run.value,
             text |-> FormatValue(run.value, run.paramType)]
  /\ UNCHANGED <<engineVars, gateVars, clientVars>>

FormatNext == Format

FormatSpec == FormatInit /\ [][FormatNext]_vars

\* the parts of a text between the separators ", "
RECURSIVE Components(_)
Components(s) ==
  LET hits == {i \in 1..(Len(s) - 1) : SubSeq(s, i, i + 1) = ", "} IN
  IF hits = {} THEN <<s>>
  ELSE LET i == CHOOSE h \in hits : \A g \in hits : h <= g
       IN  <<SubSeq(s, 1, i - 1)>> \o Components(SubSeq(s, i + 2, Len(s)))

\* the integer nearest to v / 100, a half rounded up as Math.round does
Rounded(v) == CHOOSE n \in -1000..1000 : 100 * n - 50 <= v /\ v < 100 * n + 50

\* the text ends in a point, two digits and the suffix f
TwoDecimals(text) == Len(text) >= 5 /\ Ch(text, Len(text) - 3) = "."

ComponentDenotes(text, paramType, v) ==
  CASE paramType = "Int" -> IntDenotes(text, 100 * Rounded(v))
    [] paramType = "Bool" -> BoolDenotes(text, v)
    [] OTHER -> FloatDenotes(text, v)

FormattedPerType ==
  LET parts == Components(run.text) IN
  /\ Len(parts) = ArityOf(run.paramType)
  /\ \A i \in 1..Len(parts) : ComponentDenotes(parts[i], run.paramType, run.value[i])

Malformed == [json |-> FALSE, type |-> "", payload |-> ""]

Inbound ==
  { Malformed,
    [json |-> TRUE, type |-> "operator_list", payload |-> "operators"],
    [json |-> TRUE, type |-> "error", payload |-> "Shader compilation failed"],
    [json |-> TRUE, type |-> "hello", payload |-> ""] }

\* err.message of the socket's error event
ConnectionErrors == {"connect ECONNREFUSED 127.0.0.1:9876", "read ECONNRESET"}

\* String.prototype.includes
Includes(s, sub) ==
  \E i \in 1..(Len(s) - Len(sub) + 1) : SubSeq(s, i, i + Len(sub) - 1) = sub

\* the subscriber registered with runtimeClient.onError: the messages it shows
onError(error) ==
  IF Includes(error, "ECONNREFUSED")
  THEN {[level |-> "warning", error |-> error]}
  ELSE IF ~Includes(error, "Parse error")
  THEN {[level |-> "error", error |-> error]}
  ELSE {}

\* (a variant that drops a text that does not parse without telling anyone)
swallowsParseError(data) ==
  IF ~data.json THEN <<>>
  ELSE CASE data.type = "operator_list" ->
              IF data.payload # "" THEN <<[to |-> "operatorList", arg |-> data.payload]>>
              ELSE <<>>
         [] data.type = "error" ->
              <<[to |-> "error",
                 arg |-> IF data.payload # "" THEN data.payload ELSE "Unknown error"]>>
         [] OTHER -> <<>>

\* handleMessage: the subscriber calls it makes
handleMessage(data) ==
  IF ~data.json THEN <<[to |-> "error", arg |-> "Parse error: SyntaxError"]>>
  ELSE CASE data.type = "operator_list" ->
              IF data.payload # "" THEN <<[to |-> "operatorList", arg |-> data.payload]>>
              ELSE <<>>
         [] data.type = "error" ->
              <<[to |-> "error",
                 arg |-> IF data.payload # "" THEN data.payload ELSE "Unknown error"]>>
         [] OTHER -> <<>>

\* 'message' on the socket this.ws refers to
Message(data) ==
  /\ ws = "open"
  /\ Len(log) < MaxLog
  /\ LET calls == handleMessage(data) IN
     /\ log' = Append(log, [data |-> data, calls |-> calls])
     /\ dialogs' = dialogs \cup
          UNION {onError(calls[i].arg) : i \in {j \in 1..Len(calls) : calls[j].to = "error"}}
  /\ UNCHANGED <<ws, detached, reconnectTimer, reconnectAttempts, consecutive, lastDelay,
                 scheduledTick, stopped, userCalls, liveTimers, sendCalls, transmitted,
                 engineVars, gateVars, run>>

\* 'error' on the socket this.ws refers to: the error subscribers get
\* err.message; the socket's close event follows on its own
SocketError(error) ==
  /\ \/ ws = "connecting" /\ Includes(error, "ECONNREFUSED")
     \/ ws = "open" /\ ~Includes(error, "ECONNREFUSED")
  /\ dialogs' = dialogs \cup onError(error)
  /\ UNCHANGED <<ws, detached, reconnectTimer, reconnectAttempts, consecutive, lastDelay,
                 scheduledTick, stopped, userCalls, liveTimers, log, sendCalls, transmitted,
                 engineVars, gateVars, run>>

\* (a variant that hands the command to the socket in any state)
alwaysTransmits(state) == TRUE

\* this.ws && this.ws.readyState === WebSocket.OPEN
transmits(state) == state = "open"

\* send(msg), called by every command (reload, setParam, pause, solo, ...)
send ==
  /\ sendCalls < MaxSends
  /\ sendCalls' = sendCalls + 1
  /\ transmitted' = IF transmits(ws) THEN transmitted + 1 ELSE transmitted
  /\ UNCHANGED <<ws, detached, reconnectTimer, reconnectAttempts, consecutive, lastDelay,
                 scheduledTick, stopped, userCalls, liveTimers, log, dialogs,
                 engineVars, gateVars, run>>

WireNext ==
  \/ \E throws \in BOOLEAN : UserConnect(throws)
  \/ \E throws \in BOOLEAN : ReconnectFires(throws)
  \/ SocketOpens
  \/ SocketCloses
  \/ DetachedOpens
  \/ \E state \in {"connecting", "open", "closing"} : DetachedCloses(state)
  \/ disconnect
  \/ \E data \in Inbound : Message(data)
  \/ \E error \in ConnectionErrors : SocketError(error)
  \/ send

WireSpec == ClientInit /\ [][WireNext]_vars

transport == <<ws, detached, reconnectTimer, reconnectAttempts, liveTimers>>

LastHandled == log'[Len(log')]

\* C33: handling a message that fails to parse reports a parse error to the
\* error subscribers and leaves the socket, the reconnect-attempt counter
\* and the reconnect timer unchanged; a well-formed message is dispatched to
\* its subscribers, also after a malformed one.
C33_MalformedMessageHarmless ==
  [][Len(log') > Len(log) =>
       /\ ~LastHandled.data.json =>
            /\ Len(LastHandled.calls) = 1
            /\ LastHandled.calls[1].to = "error"
            /\ Includes(LastHandled.calls[1].arg, "Parse error")
            /\ UNCHANGED transport
       /\ (LastHandled.data.json /\ LastHandled.data.type = "operator_list") =>
            LastHandled.calls = <<[to |-> "operatorList", arg |-> LastHandled.data.payload]>>
       /\ (LastHandled.data.json /\ LastHandled.data.type = "error") =>
            LastHandled.calls = <<[to |-> "error", arg |-> LastHandled.data.payload]>>]_vars

\* a malformed message was handled, then an operator list was dispatched on
\* the same open socket
C33_Witness ==
  /\ Len(log) = 2 /\ ws = "open"
  /\ ~log[1].data.json /\ log[1].calls # <<>>
  /\ log[2].data.type = "operator_list" /\ log[2].calls[1].to = "operatorList"

clientState == <<ws, detached, reconnectTimer, reconnectAttempts, consecutive, lastDelay,
                 scheduledTick, stopped, userCalls, liveTimers, log, dialogs>>

\* C34: a command sent while the socket is not open is discarded and
\* changes no client state; a command sent while the socket is open is
\* transmitted exactly once; nothing is transmitted except by a send on an
\* open socket, in particular not when the connection is established later.
C34_FireAndForget ==
  [][/\ (sendCalls' # sendCalls /\ ws # "open") =>
          (transmitted' = transmitted /\ UNCHANGED clientState)
     /\ (sendCalls' # sendCalls /\ ws = "open") =>
          (transmitted' = transmitted + 1 /\ UNCHANGED clientState)
     /\ transmitted' # transmitted => (sendCalls' # sendCalls /\ ws = "open")]_vars

\* a command was dropped and the socket opened afterwards
C34_Witness == sendCalls = 1 /\ transmitted = 0 /\ ws = "open"

\* C35: transport failure is surfaced passively: no warning or error
\* message is raised for a connection error.
C35_NoDialogForConnectionError ==
  \A d \in dialogs : d.error \notin ConnectionErrors

\* an 'open' event is handled in this step
Opening ==
  \/ ws = "connecting" /\ ws' = "open"
  \/ detached'.open > detached.open /\ detached'.connecting < detached.connecting

C38_OneTimerBoundedAttempts ==
  /\ liveTimers <= 1
  /\ liveTimers = (IF reconnectTimer # 0 THEN 1 ELSE 0)
  /\ reconnectAttempts <= maxReconnectAttempts

\* the timer before the last attempt is pending while a socket that an
\* earlier connect() left open is still there
C38_Witness ==
  /\ liveTimers = 1 /\ reconnectTimer = maxDelayMs /\ reconnectAttempts = 9
  /\ detached.open = 1

====
